---------------------------- MODULE Spec2Model ----------------------------
(***************************************************************************)
(* A model of bilibili-downloader-server.                                  *)
(*                                                                         *)
(*  - the WBI key cache of service.ApiService (GetWbiKeys, RefreshWbiKeys, *)
(*    guarded by wbiMutex, a sync.RWMutex), specification Spec;            *)
(*  - the download pipeline of service.Downloader (DownloadAndMerge, its   *)
(*    two fetch goroutines, mergeWithFfmpeg, cleanupFiles) and the stream  *)
(*    it returns (cleanupReadCloser.Close), specification PipeSpec.        *)
(*  - one download request as handler.Handler.Download serves it from the  *)
(*    downloadVideo call on, specifications HandlerSpec and                *)
(*    HandlerFairSpec;                                                     *)
(*  - the WBI signer of package utils (EncWbi, filterSpecialChars,         *)
(*    urlEncode, GetMixinKey), specification SignSpec.                     *)
(*                                                                         *)
(* Strings whose characters matter (URLs, keys) are sequences of           *)
(* one-character strings.                                                  *)
(***************************************************************************)
EXTENDS Integers, Sequences, FiniteSets, TLC

\* ------------------------------------------------------------------ bounds

\* Number of goroutines that call into the ApiService concurrently.
NumCallers == 2

\* Total number of GetWbiKeys / RefreshWbiKeys calls made in one behaviour.
MaxCalls == 3

Callers == 1..NumCallers

\* Number of goroutines that call Close on the returned stream.
NumClosers == 2

\* Total number of Close calls made in one behaviour.
MaxCloseCalls == 3

Closers == 1..NumClosers

\* The download handler calls Close too (its deferred reader.Close()).
HandlerCloser == NumClosers + 1

CloseCallers == Closers \cup {HandlerCloser}

\* ------------------------------------------------------------- key cache

VARIABLES
    wbiKeys,      \* ApiService.wbiKeys: Nil or a pair [img, sub]
    writer,       \* wbiMutex: the caller holding the write lock, or NoOne
    readers,      \* wbiMutex: the callers holding a read lock
    pc,           \* each caller's position in GetWbiKeys / RefreshWbiKeys
    frames,       \* each caller's call stack (function names, outermost first)
    seen,         \* the value of s.wbiKeys a caller read at the fast-path check
    pending,      \* the (keys, err) a caller is about to return
    cur,          \* bookkeeping of the call in progress
    rets,         \* per caller, the results of its finished calls, in order
    calls,        \* number of calls started so far
    navLog,       \* outcome ("ok" / "fail") of every key-source request of the
                  \* first concurrent batch of calls, in order
    batch,        \* callers whose first call is GetWbiKeys, started on an Empty
                  \* cache before any call returned
    invalidated   \* some RefreshWbiKeys has executed s.wbiKeys = nil

cacheVars == <<wbiKeys, writer, readers, pc, frames, seen, pending, cur, rets,
               calls, navLog, batch, invalidated>>

\* ------------------------------------------------------ download pipeline

VARIABLES
    dmPc,         \* DownloadAndMerge: the orchestrator's position
    dmRet,        \* DownloadAndMerge: what it returned
    dirExists,    \* the temporary directory exists
    files,        \* the files that exist in it, of "video", "audio", "output"
    created,      \* the files that were ever created in it
    taskPc,       \* each fetch goroutine's position
    taskErr,      \* the error each DownloadFile call returned
    sendOrder,    \* the fetch goroutines in the order they sent their result
    resultChan,   \* resultChan: the buffered results
    chanClosed,   \* resultChan is closed
    wg,           \* the WaitGroup's counter
    closerPc,     \* the position of the goroutine that waits and closes
    videoErr,     \* DownloadAndMerge: videoErr
    audioErr,     \* DownloadAndMerge: audioErr
    mergeErr,     \* the error mergeWithFfmpeg returned
    muxStarted,   \* the ffmpeg process was started
    nCleanup,     \* number of removals DownloadAndMerge performed
    fileOpen,     \* the read handle of the output file is open
    closePc,      \* each Close caller's position
    closeErr,     \* Close: the local err
    closeRan,     \* the Close call in progress ran the cleanup function
    closeRets,    \* per caller, what its finished Close calls returned
    closeCalls,   \* number of Close calls started so far
    closedFlag,   \* cleanupReadCloser.closed
    onceDone,     \* sync.Once: done
    onceM,        \* sync.Once: the holder of its mutex, or NoOne
    nFileClose,   \* number of File.Close calls
    nRemove,      \* number of os.Remove(c.filePath) calls
    nRemoveAll,   \* number of os.RemoveAll(c.tempDir) calls
    nLookPath,    \* number of exec.LookPath("ffmpeg") calls
    ffmpegOutput, \* what the ffmpeg process wrote to stdout and stderr
    closeLog      \* the steps the cleanup function of Close performed, in
                  \* order, each with the error it got

pipeVars == <<dmPc, dmRet, dirExists, files, created, taskPc, taskErr, sendOrder,
              resultChan, chanClosed, wg, closerPc, videoErr, audioErr, mergeErr,
              muxStarted, nCleanup, fileOpen, closePc, closeErr, closeRan,
              closeRets, closeCalls, closedFlag, onceDone, onceM, nFileClose,
              nRemove, nRemoveAll, nLookPath, ffmpegOutput, closeLog>>

\* -------------------------------------------------------- download handler

VARIABLES
    hPc,          \* Handler.Download: its position from the downloadVideo call on
    hCopyErr      \* Handler.Download: the error io.Copy returned

handlerVars == <<hPc, hCopyErr>>

\* ----------------------------------------------------------- WBI signing

VARIABLES
    sgIn,         \* the arguments of the EncWbi call made, NoCall before it
    sgOut,        \* what that call computed and returned
    fsIn,         \* the argument of the filterSpecialChars call made
    fsOut,        \* what that call returned
    mkIn,         \* the argument of the GetMixinKey call made
    mkOut,        \* what that call returned
    bqOut         \* what buildQueryString returned for the signed mapping

signVars == <<sgIn, sgOut, fsIn, fsOut, mkIn, mkOut, bqOut>>

\* ------------------------------------------- the request before the download

VARIABLES
    frPc,         \* Handler.Download: its position up to the GetCid call
    frReq,        \* the request: its id and its page
    frBvid,       \* the identifier the handler passes downstream
    frStatus,     \* the HTTP status the handler answered with, 0 if none
    frCalls,      \* the upstream calls made for the request, in order
    frPagelist,   \* the page-list response GetCid received
    frCid         \* what GetCid returned

frontVars == <<frPc, frReq, frBvid, frStatus, frCalls, frPagelist, frCid>>

VARIABLES
    dvPc,         \* downloadVideo: its position from the play-address data on
    playData,     \* the play-address data GetPlayUrl returned
    dvErr,        \* the error downloadVideo returned
    dlUrls,       \* the URLs DownloadAndMerge was called with
    fetchLog      \* per fetch goroutine, the URL it requested and the answer

reqVars == <<dvPc, playData, dvErr, dlUrls, fetchLog>>

vars == <<cacheVars, pipeVars, handlerVars, signVars, frontVars, reqVars>>

\* No call has been made.
NoCall == [called |-> FALSE]

\* s.wbiKeys = nil; a cached pair is the tuple <<ImgKey, SubKey>>.
Nil == << >>
\* wbiMutex is not write-locked.
NoOne == 0
\* A nil error.
NoErr == "nil"

\* --------------------------------------------------------------- strings

EmptyStr == << >>
PngSuffix == <<".", "p", "n", "g">>

\* strings.LastIndex(u, ch) for a one-character ch, 1-based; 0 when absent
\* (Go: 0-based, -1 when absent).
LastIndex(u, ch) ==
    LET hits == {i \in 1..Len(u) : u[i] = ch}
    IN  IF hits = {} THEN 0 ELSE CHOOSE i \in hits : \A j \in hits : j <= i

HasSuffix(s, suf) ==
    /\ Len(s) >= Len(suf)
    /\ SubSeq(s, Len(s) - Len(suf) + 1, Len(s)) = suf

TrimSuffix(s, suf) ==
    IF HasSuffix(s, suf) THEN SubSeq(s, 1, Len(s) - Len(suf)) ELSE s

\* A mutant of ExtractKeyFromURL: the extension is not removed.
ExtractKeyKeepsSuffix(u) ==
    LET lastSlash == LastIndex(u, "/")
    IN  IF lastSlash = 0 THEN u ELSE SubSeq(u, lastSlash + 1, Len(u))

\* utils.ExtractKeyFromURL: the text after the last "/", without a trailing
\* ".png"; the whole string when it holds no "/".
ExtractKeyFromURL(u) ==
    LET lastSlash == LastIndex(u, "/")
    IN  IF lastSlash = 0
        THEN u
        ELSE TrimSuffix(SubSeq(u, lastSlash + 1, Len(u)), PngSuffix)

\* The URLs the key source may put in img_url / sub_url.
UrlSamples ==
    { EmptyStr,
      <<"h", "/", "k", ".", "p", "n", "g">>,
      <<"h", "/", "m", ".", "p", "n", "g">>,
      <<"h", "/", ".", "p", "n", "g">>,
      <<"k", ".", "p", "n", "g">> }

\* What one GET of NavEndpoint can produce, as GetWbiKeys distinguishes it.
NavOutcomes ==
    [kind : {"transport_error", "read_error", "bad_json"}]
    \cup [kind : {"json"}, code : {-101}, img_url : {EmptyStr}, sub_url : {EmptyStr}]
    \cup [kind : {"json"}, code : {0}, img_url : UrlSamples, sub_url : UrlSamples]

\* The URL holds no key: it is empty or its final path segment, less ".png",
\* is empty.
NoKeyIn(u) ==
    \/ u = EmptyStr
    \/ u[Len(u)] = "/"
    \/ HasSuffix(u, <<"/">> \o PngSuffix)

ErrRequestFailed == "Request failed"
ErrReadBody == "Failed to read response body"
ErrParseJSON == "Failed to parse JSON"
ErrApiCode == "API returned error"
ErrInvalidKey == "Invalid WBI key format"

\* GetWbiKeys from the response on: the (keys, err) it computes from one
\* outcome of the request.
NavResult(o) ==
    CASE o.kind = "transport_error" -> [keys |-> Nil, err |-> ErrRequestFailed]
      [] o.kind = "read_error"      -> [keys |-> Nil, err |-> ErrReadBody]
      [] o.kind = "bad_json"        -> [keys |-> Nil, err |-> ErrParseJSON]
      [] OTHER ->
            IF o.code # 0
            THEN [keys |-> Nil, err |-> ErrApiCode]
            ELSE LET imgKey == ExtractKeyFromURL(o.img_url)
                     subKey == ExtractKeyFromURL(o.sub_url)
                 IN  IF imgKey = EmptyStr \/ subKey = EmptyStr
                     THEN [keys |-> Nil, err |-> ErrInvalidKey]
                     ELSE [keys |-> <<imgKey, subKey>>, err |-> NoErr]

\* A mutant of KeysToCache: the fetched pair is returned but never stored.
KeysNotCached(old, res) == old

\* The value of s.wbiKeys after the response was handled: assigned only on
\* the success path.
KeysToCache(old, res) == IF res.err = NoErr THEN res.keys ELSE old

\* A mutant of FastPathHit / SlowPathHit: the check is left out.
CheckLeftOut == FALSE

\* The cache check under the read lock.
FastPathHit == wbiKeys # Nil

\* The second check, under the write lock.
SlowPathHit == wbiKeys # Nil

\* A mutant of CanLock: the write lock excludes nobody.
CanLockAlways == TRUE

\* sync.RWMutex: RLock proceeds when no writer holds the lock, Lock when
\* nobody holds it.  The mutex is not reentrant.
CanRLock == writer = NoOne
CanLock == writer = NoOne /\ readers = {}

NoResp == [kind |-> "none"]
NoResult == [keys |-> Nil, err |-> NoErr]

FreshCall(fn) ==
    [fn |-> fn, sent |-> 0, startKeys |-> wbiKeys, dirty |-> FALSE, resp |-> NoResp]

AnyReturned == \E c \in Callers : Len(rets[c]) > 0

\* c's call in progress is one of the first concurrent batch.
InBatchCall(c) == c \in batch /\ Len(rets[c]) = 0

CacheInit ==
    /\ wbiKeys = Nil
    /\ writer = NoOne
    /\ readers = {}
    /\ pc = [c \in Callers |-> "idle"]
    /\ frames = [c \in Callers |-> << >>]
    /\ seen = [c \in Callers |-> Nil]
    /\ pending = [c \in Callers |-> NoResult]
    /\ cur = [c \in Callers |-> [fn |-> "none", sent |-> 0, startKeys |-> Nil,
                                 dirty |-> FALSE, resp |-> NoResp]]
    /\ rets = [c \in Callers |-> << >>]
    /\ calls = 0
    /\ navLog = << >>
    /\ batch = {}
    /\ invalidated = FALSE

\* A function returns res to its caller: GetWbiKeys called by RefreshWbiKeys
\* returns into it (return s.GetWbiKeys(), then the deferred Unlock), any
\* other call returns to the goroutine.
Return(c, res) ==
    IF Len(frames[c]) = 2
    THEN /\ frames' = [frames EXCEPT ![c] = <<frames[c][1]>>]
         /\ pending' = [pending EXCEPT ![c] = res]
         /\ pc' = [pc EXCEPT ![c] = "unlockret"]
         /\ UNCHANGED rets
    ELSE /\ frames' = [frames EXCEPT ![c] = << >>]
         /\ pending' = [pending EXCEPT ![c] = NoResult]
         /\ pc' = [pc EXCEPT ![c] = "idle"]
         /\ rets' = [rets EXCEPT ![c] =
                Append(@, [fn |-> cur[c].fn, keys |-> res.keys, err |-> res.err,
                           sent |-> cur[c].sent, startKeys |-> cur[c].startKeys,
                           dirty |-> cur[c].dirty])]

\* A goroutine calls s.GetWbiKeys().
CallGetWbiKeys(c) ==
    /\ UNCHANGED <<pipeVars, handlerVars, signVars, frontVars, reqVars>>
    /\ pc[c] = "idle"
    /\ calls < MaxCalls
    /\ calls' = calls + 1
    /\ pc' = [pc EXCEPT ![c] = "rlock"]
    /\ frames' = [frames EXCEPT ![c] = <<"GetWbiKeys">>]
    /\ cur' = [cur EXCEPT ![c] = FreshCall("GetWbiKeys")]
    /\ batch' = IF wbiKeys = Nil /\ ~AnyReturned THEN batch \cup {c} ELSE batch
    /\ UNCHANGED <<wbiKeys, writer, readers, seen, pending, rets, navLog, invalidated>>

\* s.wbiMutex.RLock()
RLock(c) ==
    /\ UNCHANGED <<pipeVars, handlerVars, signVars, frontVars, reqVars>>
    /\ pc[c] = "rlock"
    /\ CanRLock
    /\ readers' = readers \cup {c}
    /\ pc' = [pc EXCEPT ![c] = "check"]
    /\ UNCHANGED <<wbiKeys, writer, frames, seen, pending, cur, rets, calls, navLog,
                   batch, invalidated>>

\* if s.wbiKeys != nil { RUnlock ... } ; RUnlock
CheckCache(c) ==
    /\ UNCHANGED <<pipeVars, handlerVars, signVars, frontVars, reqVars>>
    /\ pc[c] = "check"
    /\ readers' = readers \ {c}
    /\ IF FastPathHit
       THEN /\ seen' = [seen EXCEPT ![c] = wbiKeys]
            /\ pc' = [pc EXCEPT ![c] = "fastret"]
       ELSE /\ seen' = seen
            /\ pc' = [pc EXCEPT ![c] = "lock"]
    /\ UNCHANGED <<wbiKeys, writer, frames, pending, cur, rets, calls, navLog, batch,
                   invalidated>>

\* return s.wbiKeys, nil  -- read after RUnlock, unordered with the write of
\* RefreshWbiKeys: the value checked or the value now in the field.
FastReturn(c) ==
    /\ UNCHANGED <<pipeVars, handlerVars, signVars, frontVars, reqVars>>
    /\ pc[c] = "fastret"
    /\ \E v \in {seen[c], wbiKeys} : Return(c, [keys |-> v, err |-> NoErr])
    /\ seen' = [seen EXCEPT ![c] = Nil]
    /\ UNCHANGED <<wbiKeys, writer, readers, cur, calls, navLog, batch, invalidated>>

\* s.wbiMutex.Lock()
Lock(c) ==
    /\ UNCHANGED <<pipeVars, handlerVars, signVars, frontVars, reqVars>>
    /\ pc[c] = "lock"
    /\ CanLock
    /\ writer' = c
    /\ pc' = [pc EXCEPT ![c] = "dcheck"]
    /\ UNCHANGED <<wbiKeys, readers, frames, seen, pending, cur, rets, calls, navLog,
                   batch, invalidated>>

\* The double check: if s.wbiKeys != nil { return s.wbiKeys, nil }
DoubleCheck(c) ==
    /\ UNCHANGED <<pipeVars, handlerVars, signVars, frontVars, reqVars>>
    /\ pc[c] = "dcheck"
    /\ IF SlowPathHit
       THEN /\ pending' = [pending EXCEPT ![c] = [keys |-> wbiKeys, err |-> NoErr]]
            /\ pc' = [pc EXCEPT ![c] = "unlockret"]
       ELSE /\ pending' = pending
            /\ pc' = [pc EXCEPT ![c] = "send"]
    /\ UNCHANGED <<wbiKeys, writer, readers, frames, seen, cur, rets, calls, navLog,
                   batch, invalidated>>

\* http.NewRequest, setHeaders, s.httpClient.Do(req): the request leaves.
SendNavRequest(c) ==
    /\ UNCHANGED <<pipeVars, handlerVars, signVars, frontVars, reqVars>>
    /\ pc[c] = "send"
    /\ cur' = [cur EXCEPT ![c].sent = @ + 1]
    /\ pc' = [pc EXCEPT ![c] = "await"]
    /\ UNCHANGED <<wbiKeys, writer, readers, frames, seen, pending, rets, calls, navLog,
                   batch, invalidated>>

\* The request ends; the body is read, parsed and checked, the keys are
\* extracted and, when both are present, cached.
ReceiveNav(c) ==
    /\ UNCHANGED <<pipeVars, handlerVars, signVars, frontVars, reqVars>>
    /\ pc[c] = "await"
    /\ \E o \in NavOutcomes :
          LET res == NavResult(o)
          IN  /\ wbiKeys' = KeysToCache(wbiKeys, res)
              /\ pending' = [pending EXCEPT ![c] =
                                [keys |-> KeysToCache(wbiKeys, res), err |-> res.err]]
              /\ cur' = [cur EXCEPT ![c].resp = o]
              /\ navLog' = IF InBatchCall(c)
                           THEN Append(navLog, IF res.err = NoErr THEN "ok" ELSE "fail")
                           ELSE navLog
    /\ pc' = [pc EXCEPT ![c] = "unlockret"]
    /\ UNCHANGED <<writer, readers, frames, seen, rets, calls, batch, invalidated>>

\* The deferred s.wbiMutex.Unlock(), then the return.  Unlock of a mutex
\* that is not write-locked is a fatal error of the Go runtime.
UnlockReturn(c) ==
    /\ UNCHANGED <<pipeVars, handlerVars, signVars, frontVars, reqVars>>
    /\ pc[c] = "unlockret"
    /\ IF writer # NoOne
       THEN /\ writer' = NoOne
            /\ Return(c, pending[c])
            /\ cur' = [cur EXCEPT ![c].resp = NoResp]
       ELSE /\ pc' = [pc EXCEPT ![c] = "fatal"]
            /\ UNCHANGED <<writer, frames, pending, rets, cur>>
    /\ UNCHANGED <<wbiKeys, readers, seen, calls, navLog, batch, invalidated>>

\* A goroutine calls s.RefreshWbiKeys().
CallRefreshWbiKeys(c) ==
    /\ UNCHANGED <<pipeVars, handlerVars, signVars, frontVars, reqVars>>
    /\ pc[c] = "idle"
    /\ calls < MaxCalls
    /\ calls' = calls + 1
    /\ pc' = [pc EXCEPT ![c] = "rf_lock"]
    /\ frames' = [frames EXCEPT ![c] = <<"RefreshWbiKeys">>]
    /\ cur' = [cur EXCEPT ![c] = FreshCall("RefreshWbiKeys")]
    /\ UNCHANGED <<wbiKeys, writer, readers, seen, pending, rets, navLog, batch,
                   invalidated>>

\* RefreshWbiKeys: s.wbiMutex.Lock(); defer s.wbiMutex.Unlock()
RefreshLock(c) ==
    /\ UNCHANGED <<pipeVars, handlerVars, signVars, frontVars, reqVars>>
    /\ pc[c] = "rf_lock"
    /\ CanLock
    /\ writer' = c
    /\ pc' = [pc EXCEPT ![c] = "rf_clear"]
    /\ UNCHANGED <<wbiKeys, readers, frames, seen, pending, cur, rets, calls, navLog,
                   batch, invalidated>>

\* RefreshWbiKeys: s.wbiKeys = nil; return s.GetWbiKeys() -- the call is
\* entered with the write lock still held.
RefreshClear(c) ==
    /\ UNCHANGED <<pipeVars, handlerVars, signVars, frontVars, reqVars>>
    /\ pc[c] = "rf_clear"
    /\ wbiKeys' = Nil
    /\ invalidated' = TRUE
    /\ cur' = [d \in Callers |-> [cur[d] EXCEPT !.dirty = TRUE]]
    /\ frames' = [frames EXCEPT ![c] = <<"RefreshWbiKeys", "GetWbiKeys">>]
    /\ pc' = [pc EXCEPT ![c] = "rlock"]
    /\ UNCHANGED <<writer, readers, seen, pending, rets, calls, navLog, batch>>

CallerStep(c) ==
    \/ CallGetWbiKeys(c)
    \/ RLock(c)
    \/ CheckCache(c)
    \/ FastReturn(c)
    \/ Lock(c)
    \/ DoubleCheck(c)
    \/ SendNavRequest(c)
    \/ ReceiveNav(c)
    \/ UnlockReturn(c)
    \/ CallRefreshWbiKeys(c)
    \/ RefreshLock(c)
    \/ RefreshClear(c)

\* ------------------------------------------------------ download pipeline

Tasks == {"video", "audio"}

\* A nil error of the pipeline; its errors are [msg, code].
NoDlErr == [msg |-> "nil", code |-> 0]
DlErr(msg, code) == [msg |-> msg, code |-> code]

\* The HTTP statuses a stream URL may answer with.
StatusSamples == {200, 206, 404}

\* What one GET of a stream URL can produce, as DownloadFile distinguishes it.
FetchOutcomes ==
    [kind : {"bad_url", "transport_error"}, code : {0}]
    \cup [kind : {"status"}, code : StatusSamples]

StatusOK == 200

\* A mutant of RequestError: every 2xx status is accepted.
RequestErrorAccepts2xx(o) ==
    CASE o.kind = "bad_url"         -> DlErr("create request failed", 0)
      [] o.kind = "transport_error" -> DlErr("request failed", 0)
      [] OTHER -> IF o.code < 200 \/ o.code > 299
                  THEN DlErr("download failed, status", o.code)
                  ELSE NoDlErr

\* DownloadFile up to the status check: the error it returns for an outcome
\* of the request, NoDlErr when it goes on to create the file.
RequestError(o) ==
    CASE o.kind = "bad_url"         -> DlErr("create request failed", 0)
      [] o.kind = "transport_error" -> DlErr("request failed", 0)
      [] OTHER -> IF o.code # StatusOK
                  THEN DlErr("download failed, status", o.code)
                  ELSE NoDlErr

\* A mutant of VideoResult: the path is filled in only on success.
VideoResultPathOnSuccess(err) ==
    [VideoPath |-> IF err = NoDlErr THEN "video" ELSE "", AudioPath |-> "", Err |-> err]

\* The DownloadResult each fetch goroutine sends.
VideoResult(err) == [VideoPath |-> "video", AudioPath |-> "", Err |-> err]
AudioResult(err) == [VideoPath |-> "", AudioPath |-> "audio", Err |-> err]

\* A mutant of WgWaitReturns: the wait ends when one goroutine is done.
WgWaitReturnsEarly == wg <= 1

\* wg.Wait() returns when the counter is zero.
WgWaitReturns == wg = 0

\* A mutant of FetchFailure: only the video error is looked at.
FetchFailureVideoOnly == IF videoErr # NoDlErr THEN "video" ELSE "none"

\* The checks after the collection loop: videoErr first, then audioErr.
FetchFailure ==
    IF videoErr # NoDlErr THEN "video"
    ELSE IF audioErr # NoDlErr THEN "audio"
    ELSE "none"

\* A mutant of CleanupFiles: without a directory to remove nothing is removed.
CleanupFilesOnlyWithDir(tempDir, names) ==
    IF tempDir # ""
    THEN [files |-> {}, dir |-> FALSE]
    ELSE [files |-> files, dir |-> dirExists]

\* A mutant of CleanupFiles: the named files are removed, the directory stays.
CleanupFilesKeepsDir(tempDir, names) ==
    [files |-> files \ names, dir |-> dirExists]

\* cleanupFiles(tempDir, files...): os.Remove of every named file, then
\* os.RemoveAll(tempDir) unless tempDir is "".
CleanupFiles(tempDir, names) ==
    IF tempDir # ""
    THEN [files |-> {}, dir |-> FALSE]
    ELSE [files |-> files \ names, dir |-> dirExists]

\* What the ffmpeg process may print (stdout and stderr combined).
OutputSamples == {"", "Invalid data found when processing input"}

\* The ffmpeg process has not run.
NoOutput == "<not run>"

\* A mutant of MuxError: the tool's output is left out of the error.
MuxErrorNoOutput(status, output) ==
    [msg |-> "ffmpeg failed", code |-> status, output |-> ""]

\* mergeWithFfmpeg, the process failed: the error carries the exit error and
\* the combined output.
MuxError(status, output) ==
    [msg |-> "ffmpeg failed", code |-> status, output |-> output]

\* A mutant of ErrToolNotFound: the failure of the lookup is reported as a
\* failure of the process.
ErrToolNotFoundAsMuxError == [msg |-> "ffmpeg failed", code |-> 1, output |-> ""]

\* mergeWithFfmpeg, exec.LookPath failed.
ErrToolNotFound == DlErr("ffmpeg not found", 0)

\* The URL of a stream when DownloadAndMerge is looked at on its own.
UrlOf(t) == <<t>>

NoRet == [stream |-> FALSE, stage |-> "none", cause |-> NoDlErr]
ErrorRet(stage, cause) == [stream |-> FALSE, stage |-> stage, cause |-> cause]
StreamRet == [stream |-> TRUE, stage |-> "ok", cause |-> NoDlErr]

PipeInit ==
    /\ dmPc = "mkdir"
    /\ dmRet = NoRet
    /\ dirExists = FALSE
    /\ files = {}
    /\ created = {}
    /\ taskPc = [t \in Tasks |-> "idle"]
    /\ taskErr = [t \in Tasks |-> NoDlErr]
    /\ sendOrder = << >>
    /\ resultChan = << >>
    /\ chanClosed = FALSE
    /\ wg = 0
    /\ closerPc = "idle"
    /\ videoErr = NoDlErr
    /\ audioErr = NoDlErr
    /\ mergeErr = NoDlErr
    /\ muxStarted = FALSE
    /\ nCleanup = 0
    /\ fileOpen = FALSE
    /\ closePc = [k \in CloseCallers |-> "idle"]
    /\ closeErr = [k \in CloseCallers |-> NoDlErr]
    /\ closeRan = [k \in CloseCallers |-> FALSE]
    /\ closeRets = [k \in CloseCallers |-> << >>]
    /\ closeCalls = 0
    /\ closedFlag = FALSE
    /\ onceDone = FALSE
    /\ onceM = NoOne
    /\ nFileClose = 0
    /\ nRemove = 0
    /\ nRemoveAll = 0
    /\ nLookPath = 0
    /\ ffmpegOutput = NoOutput
    /\ closeLog = << >>

closeVars == <<closePc, closeErr, closeRan, closeRets, closeCalls, closedFlag,
               onceDone, onceM, nFileClose, nRemove, nRemoveAll>>
taskVars == <<taskPc, taskErr, sendOrder, resultChan, chanClosed, wg, closerPc>>

\* os.MkdirTemp("", "bilibili_downloader_*")
MkdirTemp ==
    /\ dmPc = "mkdir"
    /\ \E ok \in BOOLEAN :
          IF ok
          THEN /\ dirExists' = TRUE
               /\ dmPc' = "spawn"
               /\ dmRet' = dmRet
          ELSE /\ dirExists' = dirExists
               /\ dmPc' = "returned"
               /\ dmRet' = ErrorRet("mkdir", DlErr("mkdir failed", 0))
    /\ UNCHANGED <<files, created, videoErr, audioErr, mergeErr, muxStarted, nCleanup,
                   fileOpen>>
    /\ UNCHANGED <<taskVars, closeVars, cacheVars, handlerVars, signVars, frontVars, reqVars>>
    /\ UNCHANGED <<nLookPath, ffmpegOutput, closeLog>>

\* make(chan, 2); wg.Add(1); go video; wg.Add(1); go audio; go wait-and-close
StartFetches ==
    /\ dmPc = "spawn"
    /\ wg' = 2
    /\ taskPc' = [t \in Tasks |-> "request"]
    /\ closerPc' = "wait"
    /\ dmPc' = "collect"
    /\ UNCHANGED <<dmRet, dirExists, files, created, taskErr, sendOrder, resultChan,
                   chanClosed, videoErr, audioErr, mergeErr, muxStarted, nCleanup,
                   fileOpen>>
    /\ UNCHANGED <<closeVars, cacheVars, handlerVars, signVars, frontVars, reqVars>>
    /\ UNCHANGED <<nLookPath, ffmpegOutput, closeLog>>

\* DownloadFile: the request and the status check.
TaskRequest(t) ==
    /\ taskPc[t] = "request"
    /\ \E o \in FetchOutcomes :
          /\ fetchLog' = [fetchLog EXCEPT ![t] = [called |-> TRUE, url |-> dlUrls[t], resp |-> o]]
          /\ IF RequestError(o) = NoDlErr
             THEN /\ taskPc' = [taskPc EXCEPT ![t] = "create"]
                  /\ taskErr' = taskErr
             ELSE /\ taskPc' = [taskPc EXCEPT ![t] = "send"]
                  /\ taskErr' = [taskErr EXCEPT ![t] = RequestError(o)]
    /\ UNCHANGED <<dmPc, dmRet, dirExists, files, created, sendOrder, resultChan,
                   chanClosed, wg, closerPc, videoErr, audioErr, mergeErr, muxStarted,
                   nCleanup, fileOpen>>
    /\ UNCHANGED <<closeVars, cacheVars, handlerVars, signVars, frontVars>>
    /\ UNCHANGED <<dvPc, playData, dvErr, dlUrls>>
    /\ UNCHANGED <<nLookPath, ffmpegOutput, closeLog>>

\* DownloadFile: os.Create(filename)
TaskCreate(t) ==
    /\ taskPc[t] = "create"
    /\ \E ok \in BOOLEAN :
          IF ok
          THEN /\ files' = files \cup {t}
               /\ created' = created \cup {t}
               /\ taskPc' = [taskPc EXCEPT ![t] = "copy"]
               /\ taskErr' = taskErr
          ELSE /\ UNCHANGED <<files, created>>
               /\ taskPc' = [taskPc EXCEPT ![t] = "send"]
               /\ taskErr' = [taskErr EXCEPT ![t] = DlErr("create file failed", 0)]
    /\ UNCHANGED <<dmPc, dmRet, dirExists, sendOrder, resultChan, chanClosed, wg,
                   closerPc, videoErr, audioErr, mergeErr, muxStarted, nCleanup,
                   fileOpen>>
    /\ UNCHANGED <<closeVars, cacheVars, handlerVars, signVars, frontVars, reqVars>>
    /\ UNCHANGED <<nLookPath, ffmpegOutput, closeLog>>

\* DownloadFile: io.Copy(file, resp.Body); a failed copy leaves the file.
TaskCopy(t) ==
    /\ taskPc[t] = "copy"
    /\ \E ok \in BOOLEAN :
          taskErr' = [taskErr EXCEPT ![t] =
                         IF ok THEN NoDlErr ELSE DlErr("write file failed", 0)]
    /\ taskPc' = [taskPc EXCEPT ![t] = "send"]
    /\ UNCHANGED <<dmPc, dmRet, dirExists, files, created, sendOrder, resultChan,
                   chanClosed, wg, closerPc, videoErr, audioErr, mergeErr, muxStarted,
                   nCleanup, fileOpen>>
    /\ UNCHANGED <<closeVars, cacheVars, handlerVars, signVars, frontVars, reqVars>>
    /\ UNCHANGED <<nLookPath, ffmpegOutput, closeLog>>

\* resultChan <- &DownloadResult{...}; a send on a closed channel panics.
TaskSend(t) ==
    /\ taskPc[t] = "send"
    /\ IF chanClosed
       THEN /\ taskPc' = [taskPc EXCEPT ![t] = "panic"]
            /\ UNCHANGED <<resultChan, sendOrder>>
       ELSE /\ Len(resultChan) < 2
            /\ resultChan' = Append(resultChan,
                                IF t = "video" THEN VideoResult(taskErr[t])
                                               ELSE AudioResult(taskErr[t]))
            /\ sendOrder' = Append(sendOrder, t)
            /\ taskPc' = [taskPc EXCEPT ![t] = "sent"]
    /\ UNCHANGED <<dmPc, dmRet, dirExists, files, created, taskErr, chanClosed, wg,
                   closerPc, videoErr, audioErr, mergeErr, muxStarted, nCleanup,
                   fileOpen>>
    /\ UNCHANGED <<closeVars, cacheVars, handlerVars, signVars, frontVars, reqVars>>
    /\ UNCHANGED <<nLookPath, ffmpegOutput, closeLog>>

\* defer wg.Done()
TaskDone(t) ==
    /\ taskPc[t] = "sent"
    /\ wg' = wg - 1
    /\ taskPc' = [taskPc EXCEPT ![t] = "done"]
    /\ UNCHANGED <<dmPc, dmRet, dirExists, files, created, taskErr, sendOrder,
                   resultChan, chanClosed, closerPc, videoErr, audioErr, mergeErr,
                   muxStarted, nCleanup, fileOpen>>
    /\ UNCHANGED <<closeVars, cacheVars, handlerVars, signVars, frontVars, reqVars>>
    /\ UNCHANGED <<nLookPath, ffmpegOutput, closeLog>>

\* wg.Wait()
CloserWait ==
    /\ closerPc = "wait"
    /\ WgWaitReturns
    /\ closerPc' = "close"
    /\ UNCHANGED <<dmPc, dmRet, dirExists, files, created, taskPc, taskErr, sendOrder,
                   resultChan, chanClosed, wg, videoErr, audioErr, mergeErr,
                   muxStarted, nCleanup, fileOpen>>
    /\ UNCHANGED <<closeVars, cacheVars, handlerVars, signVars, frontVars, reqVars>>
    /\ UNCHANGED <<nLookPath, ffmpegOutput, closeLog>>

\* close(resultChan)
CloserClose ==
    /\ closerPc = "close"
    /\ chanClosed' = TRUE
    /\ closerPc' = "done"
    /\ UNCHANGED <<dmPc, dmRet, dirExists, files, created, taskPc, taskErr, sendOrder,
                   resultChan, wg, videoErr, audioErr, mergeErr, muxStarted, nCleanup,
                   fileOpen>>
    /\ UNCHANGED <<closeVars, cacheVars, handlerVars, signVars, frontVars, reqVars>>
    /\ UNCHANGED <<nLookPath, ffmpegOutput, closeLog>>

\* for result := range resultChan { ... }: one iteration.
RecvResult ==
    /\ dmPc = "collect"
    /\ resultChan # << >>
    /\ LET result == Head(resultChan)
       IN  /\ resultChan' = Tail(resultChan)
           /\ videoErr' = IF result.Err # NoDlErr /\ result.VideoPath # ""
                          THEN result.Err ELSE videoErr
           /\ audioErr' = IF result.Err # NoDlErr /\ result.VideoPath = ""
                          THEN result.Err ELSE audioErr
    /\ UNCHANGED <<dmPc, dmRet, dirExists, files, created, taskPc, taskErr, sendOrder,
                   chanClosed, wg, closerPc, mergeErr, muxStarted, nCleanup, fileOpen>>
    /\ UNCHANGED <<closeVars, cacheVars, handlerVars, signVars, frontVars, reqVars>>
    /\ UNCHANGED <<nLookPath, ffmpegOutput, closeLog>>

\* The range loop ends: the channel is closed and drained.
CollectDone ==
    /\ dmPc = "collect"
    /\ chanClosed
    /\ resultChan = << >>
    /\ dmPc' = "check"
    /\ UNCHANGED <<dmRet, dirExists, files, created, videoErr, audioErr, mergeErr,
                   muxStarted, nCleanup, fileOpen>>
    /\ UNCHANGED <<taskVars, closeVars, cacheVars, handlerVars, signVars, frontVars, reqVars>>
    /\ UNCHANGED <<nLookPath, ffmpegOutput, closeLog>>

\* if videoErr != nil { cleanupFiles; return } if audioErr != nil { ... }
CheckErrors ==
    /\ dmPc = "check"
    /\ IF FetchFailure = "none"
       THEN /\ dmPc' = "lookpath"
            /\ UNCHANGED <<dmRet, dirExists, files, nCleanup>>
       ELSE /\ files' = CleanupFiles("tmp", {"video", "audio", "output"}).files
            /\ dirExists' = CleanupFiles("tmp", {"video", "audio", "output"}).dir
            /\ nCleanup' = nCleanup + 1
            /\ dmRet' = ErrorRet(FetchFailure,
                                 IF FetchFailure = "video" THEN videoErr ELSE audioErr)
            /\ dmPc' = "returned"
    /\ UNCHANGED <<created, videoErr, audioErr, mergeErr, muxStarted, fileOpen>>
    /\ UNCHANGED <<taskVars, closeVars, cacheVars, handlerVars, signVars, frontVars, reqVars>>
    /\ UNCHANGED <<nLookPath, ffmpegOutput, closeLog>>

\* mergeWithFfmpeg: exec.LookPath("ffmpeg")
LookPath ==
    /\ dmPc = "lookpath"
    /\ nLookPath' = nLookPath + 1
    /\ \E found \in BOOLEAN :
          IF found
          THEN /\ dmPc' = "ffmpeg"
               /\ mergeErr' = mergeErr
          ELSE /\ dmPc' = "mergefail"
               /\ mergeErr' = ErrToolNotFound
    /\ UNCHANGED <<dmRet, dirExists, files, created, videoErr, audioErr, muxStarted,
                   nCleanup, fileOpen>>
    /\ UNCHANGED <<taskVars, closeVars, cacheVars, handlerVars, signVars, frontVars, reqVars>>
    /\ UNCHANGED <<ffmpegOutput, closeLog>>

\* mergeWithFfmpeg: cmd.CombinedOutput() starts the process.
FfmpegStart ==
    /\ dmPc = "ffmpeg"
    /\ muxStarted' = TRUE
    /\ dmPc' = "ffmpeg_wait"
    /\ UNCHANGED <<dmRet, dirExists, files, created, videoErr, audioErr, mergeErr,
                   nCleanup, fileOpen>>
    /\ UNCHANGED <<taskVars, closeVars, cacheVars, handlerVars, signVars, frontVars, reqVars>>
    /\ UNCHANGED <<nLookPath, ffmpegOutput, closeLog>>

\* mergeWithFfmpeg: the process exits; with status 0 the output file exists,
\* otherwise it may or may not have been written.
FfmpegExit ==
    /\ dmPc = "ffmpeg_wait"
    /\ \E status \in {0, 1}, wrote \in BOOLEAN, output \in OutputSamples :
          /\ status = 0 => wrote
          /\ ffmpegOutput' = output
          /\ files' = IF wrote THEN files \cup {"output"} ELSE files
          /\ created' = IF wrote THEN created \cup {"output"} ELSE created
          /\ IF status = 0
             THEN /\ dmPc' = "merged"
                  /\ mergeErr' = mergeErr
             ELSE /\ dmPc' = "mergefail"
                  /\ mergeErr' = MuxError(status, output)
    /\ UNCHANGED <<dmRet, dirExists, videoErr, audioErr, muxStarted, nCleanup, fileOpen>>
    /\ UNCHANGED <<taskVars, closeVars, cacheVars, handlerVars, signVars, frontVars, reqVars>>
    /\ UNCHANGED <<nLookPath, closeLog>>

\* if err != nil { cleanupFiles(tempDir, videoPath, audioPath, outputPath); return }
MergeFailed ==
    /\ dmPc = "mergefail"
    /\ files' = CleanupFiles("tmp", {"video", "audio", "output"}).files
    /\ dirExists' = CleanupFiles("tmp", {"video", "audio", "output"}).dir
    /\ nCleanup' = nCleanup + 1
    /\ dmRet' = ErrorRet("merge", mergeErr)
    /\ dmPc' = "returned"
    /\ UNCHANGED <<created, videoErr, audioErr, mergeErr, muxStarted, fileOpen>>
    /\ UNCHANGED <<taskVars, closeVars, cacheVars, handlerVars, signVars, frontVars, reqVars>>
    /\ UNCHANGED <<nLookPath, ffmpegOutput, closeLog>>

\* cleanupFiles("", videoPath, audioPath)
RemoveInputs ==
    /\ dmPc = "merged"
    /\ files' = CleanupFiles("", {"video", "audio"}).files
    /\ dirExists' = CleanupFiles("", {"video", "audio"}).dir
    /\ nCleanup' = nCleanup + 1
    /\ dmPc' = "open"
    /\ UNCHANGED <<dmRet, created, videoErr, audioErr, mergeErr, muxStarted, fileOpen>>
    /\ UNCHANGED <<taskVars, closeVars, cacheVars, handlerVars, signVars, frontVars, reqVars>>
    /\ UNCHANGED <<nLookPath, ffmpegOutput, closeLog>>

\* os.Open(outputPath); on failure os.RemoveAll(tempDir); else the stream.
OpenOutput ==
    /\ dmPc = "open"
    /\ \E ok \in BOOLEAN :
          IF ok
          THEN /\ fileOpen' = TRUE
               /\ dmRet' = StreamRet
               /\ UNCHANGED <<files, dirExists, nCleanup>>
          ELSE /\ fileOpen' = fileOpen
               /\ files' = {}
               /\ dirExists' = FALSE
               /\ nCleanup' = nCleanup + 1
               /\ dmRet' = ErrorRet("open", DlErr("open output failed", 0))
    /\ dmPc' = "returned"
    /\ UNCHANGED <<created, videoErr, audioErr, mergeErr, muxStarted>>
    /\ UNCHANGED <<taskVars, closeVars, cacheVars, handlerVars, signVars, frontVars, reqVars>>
    /\ UNCHANGED <<nLookPath, ffmpegOutput, closeLog>>

dmVars == <<dmPc, dmRet, created, videoErr, audioErr, mergeErr, muxStarted, nCleanup>>

\* A mutant of OnceMustRun: done is not looked at again under the mutex.
OnceAlwaysRuns == TRUE

\* sync.Once.Do, slow path: f runs when done is still unset.
OnceMustRun == ~onceDone

\* A holder of the stream calls Close().
CallClose(k) ==
    /\ dmPc = "returned"
    /\ dmRet.stream
    /\ closePc[k] = "idle"
    /\ closeCalls < MaxCloseCalls
    /\ closeCalls' = closeCalls + 1
    /\ closeErr' = [closeErr EXCEPT ![k] = NoDlErr]
    /\ closeRan' = [closeRan EXCEPT ![k] = FALSE]
    /\ closePc' = [closePc EXCEPT ![k] = "once"]
    /\ UNCHANGED <<closeRets, closedFlag, onceDone, onceM, nFileClose, nRemove,
                   nRemoveAll, files, dirExists, fileOpen>>
    /\ UNCHANGED <<dmVars, taskVars, cacheVars, handlerVars, signVars, frontVars, reqVars>>
    /\ UNCHANGED <<nLookPath, ffmpegOutput, closeLog>>

\* c.once.Do: the fast path, done is already set.
OnceFast(k) ==
    /\ closePc[k] = "once"
    /\ closePc' = [closePc EXCEPT ![k] = IF onceDone THEN "ret" ELSE "once_lock"]
    /\ UNCHANGED <<closeErr, closeRan, closeRets, closeCalls, closedFlag, onceDone,
                   onceM, nFileClose, nRemove, nRemoveAll, files, dirExists, fileOpen>>
    /\ UNCHANGED <<dmVars, taskVars, cacheVars, handlerVars, signVars, frontVars, reqVars>>
    /\ UNCHANGED <<nLookPath, ffmpegOutput, closeLog>>

\* c.once.Do: the slow path takes the Once's mutex and looks at done again.
OnceSlow(k) ==
    /\ closePc[k] = "once_lock"
    /\ onceM = NoOne
    /\ IF OnceMustRun
       THEN /\ onceM' = k
            /\ closePc' = [closePc EXCEPT ![k] = "f_close"]
       ELSE /\ onceM' = onceM
            /\ closePc' = [closePc EXCEPT ![k] = "ret"]
    /\ UNCHANGED <<closeErr, closeRan, closeRets, closeCalls, closedFlag, onceDone,
                   nFileClose, nRemove, nRemoveAll, files, dirExists, fileOpen>>
    /\ UNCHANGED <<dmVars, taskVars, cacheVars, handlerVars, signVars, frontVars, reqVars>>
    /\ UNCHANGED <<nLookPath, ffmpegOutput, closeLog>>

\* A mutant of AfterFileClose: a failed close of the handle ends the cleanup.
AfterFileCloseStopsOnError(err) ==
    IF err = NoDlErr THEN "f_remove" ELSE "once_done"

\* Close: after err = c.File.Close() the removals follow, whatever err is.
AfterFileClose(err) == "f_remove"

\* c.closed = true; err = c.File.Close()
FClose(k) ==
    /\ closePc[k] = "f_close"
    /\ closedFlag' = TRUE
    /\ closeRan' = [closeRan EXCEPT ![k] = TRUE]
    /\ \E e \in {NoDlErr, DlErr("close failed", 0)} :
          LET err == IF fileOpen THEN e ELSE DlErr("file already closed", 0)
          IN  /\ closeErr' = [closeErr EXCEPT ![k] = err]
              /\ closeLog' = Append(closeLog, [step |-> "close", err |-> err])
              /\ closePc' = [closePc EXCEPT ![k] = AfterFileClose(err)]
    /\ fileOpen' = FALSE
    /\ nFileClose' = nFileClose + 1
    /\ UNCHANGED <<closeRets, closeCalls, onceDone, onceM, nRemove, nRemoveAll, files,
                   dirExists>>
    /\ UNCHANGED <<dmVars, taskVars, cacheVars, handlerVars, signVars, frontVars, reqVars>>
    /\ UNCHANGED <<nLookPath, ffmpegOutput>>

\* os.Remove(c.filePath): it fails when the file is not there, and it may fail
\* with the file left in place; the error is dropped.
FRemove(k) ==
    /\ closePc[k] = "f_remove"
    /\ \E ok \in BOOLEAN :
          /\ files' = IF ok THEN files \ {"output"} ELSE files
          /\ closeLog' = Append(closeLog,
                 [step |-> "remove",
                  err  |-> IF ok /\ "output" \in files THEN NoDlErr
                           ELSE DlErr("remove failed", 0)])
    /\ nRemove' = nRemove + 1
    /\ closePc' = [closePc EXCEPT ![k] = "f_removeall"]
    /\ UNCHANGED <<closeErr, closeRan, closeRets, closeCalls, closedFlag, onceDone,
                   onceM, nFileClose, nRemoveAll, dirExists, fileOpen>>
    /\ UNCHANGED <<dmVars, taskVars, cacheVars, handlerVars, signVars, frontVars, reqVars>>
    /\ UNCHANGED <<nLookPath, ffmpegOutput>>

\* os.RemoveAll(c.tempDir)
FRemoveAll(k) ==
    /\ closePc[k] = "f_removeall"
    /\ closeLog' = Append(closeLog, [step |-> "removeall", err |-> NoDlErr])
    /\ files' = {}
    /\ dirExists' = FALSE
    /\ nRemoveAll' = nRemoveAll + 1
    /\ closePc' = [closePc EXCEPT ![k] = "once_done"]
    /\ UNCHANGED <<closeErr, closeRan, closeRets, closeCalls, closedFlag, onceDone,
                   onceM, nFileClose, nRemove, fileOpen>>
    /\ UNCHANGED <<dmVars, taskVars, cacheVars, handlerVars, signVars, frontVars, reqVars>>
    /\ UNCHANGED <<nLookPath, ffmpegOutput>>

\* sync.Once: f has returned; done is set and the mutex released.
OnceDone(k) ==
    /\ closePc[k] = "once_done"
    /\ onceDone' = TRUE
    /\ onceM' = NoOne
    /\ closePc' = [closePc EXCEPT ![k] = "ret"]
    /\ UNCHANGED <<closeErr, closeRan, closeRets, closeCalls, closedFlag, nFileClose,
                   nRemove, nRemoveAll, files, dirExists, fileOpen>>
    /\ UNCHANGED <<dmVars, taskVars, cacheVars, handlerVars, signVars, frontVars, reqVars>>
    /\ UNCHANGED <<nLookPath, ffmpegOutput, closeLog>>

\* return err
CloseReturn(k) ==
    /\ closePc[k] = "ret"
    /\ closeRets' = [closeRets EXCEPT ![k] =
                        Append(@, [err |-> closeErr[k], ran |-> closeRan[k]])]
    /\ closePc' = [closePc EXCEPT ![k] = "idle"]
    /\ UNCHANGED <<closeErr, closeRan, closeCalls, closedFlag, onceDone, onceM,
                   nFileClose, nRemove, nRemoveAll, files, dirExists, fileOpen>>
    /\ UNCHANGED <<dmVars, taskVars, cacheVars, handlerVars, signVars, frontVars, reqVars>>
    /\ UNCHANGED <<nLookPath, ffmpegOutput, closeLog>>

TaskStep(t) ==
    \/ TaskRequest(t)
    \/ TaskCreate(t)
    \/ TaskCopy(t)
    \/ TaskSend(t)
    \/ TaskDone(t)

CloseStep(k) ==
    \/ CallClose(k)
    \/ OnceFast(k)
    \/ OnceSlow(k)
    \/ FClose(k)
    \/ FRemove(k)
    \/ FRemoveAll(k)
    \/ OnceDone(k)
    \/ CloseReturn(k)

\* -------------------------------------------------------- download handler

HandlerInit ==
    /\ hPc = "download"
    /\ hCopyErr = NoDlErr

\* What io.Copy(c.Writer, reader) can return: nil, or the error of a write to
\* a client that went away.
CopyOutcomes == {NoDlErr, DlErr("write to client failed", 0)}

\* A mutant of DeferredCloseRuns: Close is called only after a complete copy.
CloseOnlyAfterFullCopy(copyErr) == copyErr = NoDlErr

\* defer reader.Close(): registered before the copy, it runs on every return
\* that follows.
DeferredCloseRuns(copyErr) == TRUE

\* reader, err := h.downloadVideo(...): on an error handleError answers and
\* the handler returns; otherwise the Close is deferred and the headers set.
HandlerGotResult ==
    /\ hPc = "download"
    /\ dmPc = "returned"
    /\ hPc' = IF dmRet.stream THEN "copy" ELSE "returned"
    /\ UNCHANGED <<hCopyErr, pipeVars, cacheVars, signVars, frontVars, reqVars>>

\* _, err = io.Copy(c.Writer, reader); with an error the handler answers 500;
\* either way the function body is left.
HandlerCopy ==
    /\ hPc = "copy"
    /\ \E e \in CopyOutcomes : hCopyErr' = e
    /\ hPc' = "defer"
    /\ UNCHANGED <<pipeVars, cacheVars, signVars, frontVars, reqVars>>

\* The deferred reader.Close() starts.
HandlerDeferredClose ==
    /\ hPc = "defer"
    /\ IF DeferredCloseRuns(hCopyErr)
       THEN /\ closePc[HandlerCloser] = "idle"
            /\ closeErr' = [closeErr EXCEPT ![HandlerCloser] = NoDlErr]
            /\ closeRan' = [closeRan EXCEPT ![HandlerCloser] = FALSE]
            /\ closePc' = [closePc EXCEPT ![HandlerCloser] = "once"]
            /\ hPc' = "closing"
       ELSE /\ UNCHANGED <<closeErr, closeRan, closePc>>
            /\ hPc' = "returned"
    /\ UNCHANGED <<closeRets, closeCalls, closedFlag, onceDone, onceM, nFileClose,
                   nRemove, nRemoveAll, files, dirExists, fileOpen, hCopyErr>>
    /\ UNCHANGED <<dmVars, taskVars, cacheVars, signVars, frontVars, reqVars>>
    /\ UNCHANGED <<nLookPath, ffmpegOutput, closeLog>>

\* The deferred Close has returned (its result is dropped): Download returns.
HandlerReturn ==
    /\ hPc = "closing"
    /\ closePc[HandlerCloser] = "idle"
    /\ hPc' = "returned"
    /\ UNCHANGED <<hCopyErr, pipeVars, cacheVars, signVars, frontVars, reqVars>>

\* The steps of the handler's own Close call.
HandlerCloseStep ==
    \/ OnceFast(HandlerCloser)
    \/ OnceSlow(HandlerCloser)
    \/ FClose(HandlerCloser)
    \/ FRemove(HandlerCloser)
    \/ FRemoveAll(HandlerCloser)
    \/ OnceDone(HandlerCloser)
    \/ CloseReturn(HandlerCloser)

HandlerStep ==
    \/ HandlerGotResult
    \/ HandlerCopy
    \/ HandlerDeferredClose
    \/ HandlerCloseStep
    \/ HandlerReturn

\* DownloadAndMerge with its goroutines.
DownloadStep ==
    \/ MkdirTemp
    \/ StartFetches
    \/ \E t \in Tasks : TaskStep(t)
    \/ CloserWait
    \/ CloserClose
    \/ RecvResult
    \/ CollectDone
    \/ CheckErrors
    \/ LookPath
    \/ FfmpegStart
    \/ FfmpegExit
    \/ MergeFailed
    \/ RemoveInputs
    \/ OpenOutput

\* One download request as the server runs it: the handler is the only holder
\* of the stream.
HandlerNext ==
    \/ DownloadStep
    \/ HandlerStep

PipeNext ==
    \/ MkdirTemp
    \/ StartFetches
    \/ \E t \in Tasks : TaskStep(t)
    \/ CloserWait
    \/ CloserClose
    \/ RecvResult
    \/ CollectDone
    \/ CheckErrors
    \/ LookPath
    \/ FfmpegStart
    \/ FfmpegExit
    \/ MergeFailed
    \/ RemoveInputs
    \/ OpenOutput
    \/ \E k \in Closers : CloseStep(k)

\* ----------------------------------------------------------- WBI signing

\* The most entries a sampled parameter mapping has.
MaxParams == 2

\* The longest string filterSpecialChars is called with on its own.
MaxStrLen == 3

\* The byte of each character the sampled strings are made of.
ByteOf(c) ==
    CASE c = " " -> 32 [] c = "!" -> 33 [] c = "%" -> 37
      [] c = "&" -> 38 [] c = "'" -> 39
      [] c = "(" -> 40 [] c = ")" -> 41 [] c = "*" -> 42 [] c = "+" -> 43
      [] c = "0" -> 48 [] c = "1" -> 49 [] c = "2" -> 50 [] c = "3" -> 51
      [] c = "4" -> 52 [] c = "5" -> 53 [] c = "6" -> 54 [] c = "7" -> 55
      [] c = "8" -> 56 [] c = "9" -> 57 [] c = "=" -> 61
      [] c = "A" -> 65 [] c = "B" -> 66 [] c = "C" -> 67 [] c = "D" -> 68
      [] c = "E" -> 69 [] c = "F" -> 70 [] c = "V" -> 86 [] c = "Z" -> 90
      [] c = "_" -> 95 [] c = "a" -> 97 [] c = "b" -> 98 [] c = "c" -> 99
      [] c = "d" -> 100 [] c = "e" -> 101 [] c = "f" -> 102 [] c = "g" -> 103
      [] c = "i" -> 105 [] c = "k" -> 107 [] c = "l" -> 108 [] c = "m" -> 109
      [] c = "n" -> 110 [] c = "o" -> 111 [] c = "p" -> 112 [] c = "q" -> 113
      [] c = "r" -> 114 [] c = "s" -> 115 [] c = "t" -> 116 [] c = "u" -> 117
      [] c = "v" -> 118 [] c = "w" -> 119 [] c = "x" -> 120 [] c = "." -> 46

\* Go's a < b on strings: byte-wise lexicographic order.
RECURSIVE StrLess(_, _)
StrLess(a, b) ==
    IF b = << >> THEN FALSE
    ELSE IF a = << >> THEN TRUE
    ELSE IF ByteOf(Head(a)) # ByteOf(Head(b)) THEN ByteOf(Head(a)) < ByteOf(Head(b))
    ELSE StrLess(Tail(a), Tail(b))

\* Inserts key k into the ascending sequence sorted.
RECURSIVE InsertSorted(_, _)
InsertSorted(k, sorted) ==
    IF sorted = << >> THEN <<k>>
    ELSE IF StrLess(k, Head(sorted)) THEN <<k>> \o sorted
    ELSE <<Head(sorted)>> \o InsertSorted(k, Tail(sorted))

\* A mutant of SortStrings: the keys stay in the order the map gave them.
KeysUnsorted(keys) == keys

\* sort.Strings(keys)
RECURSIVE SortStrings(_)
SortStrings(keys) ==
    IF keys = << >> THEN << >>
    ELSE InsertSorted(Head(keys), SortStrings(Tail(keys)))

\* The values of a parameter mapping: strings and integers (interface{}).
StrVal(s) == [t |-> "str", s |-> s, n |-> 0]
IntVal(n) == [t |-> "int", s |-> << >>, n |-> n]

DecimalDigits == <<"0", "1", "2", "3", "4", "5", "6", "7", "8", "9">>

\* The decimal digits of a natural number.
RECURSIVE Decimal(_)
Decimal(n) ==
    IF n < 10 THEN <<DecimalDigits[n + 1]>>
    ELSE Decimal(n \div 10) \o <<DecimalDigits[(n % 10) + 1]>>

\* fmt.Sprintf("%v", value) of a string, of a natural number, of a digest.
Sprint(v) == IF v.t = "int" THEN Decimal(v.n) ELSE v.s

\* A mutant of IsSpecialChar: the single quote is not in the list.
IsSpecialCharNoQuote(c) == c \in {"!", "(", ")", "*"}

\* filterSpecialChars: case '!', '\'', '(', ')', '*'
IsSpecialChar(c) == c \in {"!", "'", "(", ")", "*"}

\* filterSpecialChars(s): the loop over the characters of s.
RECURSIVE filterSpecialChars(_)
filterSpecialChars(s) ==
    IF s = << >> THEN << >>
    ELSE IF IsSpecialChar(Head(s)) THEN filterSpecialChars(Tail(s))
    ELSE <<Head(s)>> \o filterSpecialChars(Tail(s))

HexDigits == <<"0", "1", "2", "3", "4", "5", "6", "7", "8", "9",
               "A", "B", "C", "D", "E", "F">>

\* url.QueryEscape keeps letters, digits and - _ . ~
Unreserved(c) ==
    \/ ByteOf(c) \in 48..57
    \/ ByteOf(c) \in 65..90
    \/ ByteOf(c) \in 97..122
    \/ c \in {"-", "_", ".", "~"}

\* url.QueryEscape of one character: a space becomes +, any other reserved
\* byte becomes % and its two upper-case hexadecimal digits.
EscapeChar(c) ==
    IF Unreserved(c) THEN <<c>>
    ELSE IF c = " " THEN <<"+">>
    ELSE <<"%", HexDigits[(ByteOf(c) \div 16) + 1], HexDigits[(ByteOf(c) % 16) + 1]>>

\* urlEncode(s) = url.QueryEscape(s)
RECURSIVE urlEncode(_)
urlEncode(s) ==
    IF s = << >> THEN << >>
    ELSE EscapeChar(Head(s)) \o urlEncode(Tail(s))

mixinKeyEncTab ==
    <<46, 47, 18, 2, 53, 8, 23, 32, 15, 50, 10, 31, 58, 3, 45, 35, 27, 43, 5, 49,
      33, 9, 42, 19, 29, 28, 14, 39, 12, 38, 41, 13, 37, 48, 7, 16, 24, 55, 40, 61,
      26, 17, 0, 1, 60, 51, 30, 4, 22, 25, 54, 21, 56, 59, 6, 63, 57, 62, 11, 36,
      20, 34, 44, 52>>

\* GetMixinKey: the loop over the table, from its entry number j on.
RECURSIVE MixinFrom(_, _)
MixinFrom(orig, j) ==
    IF j > Len(mixinKeyEncTab) THEN << >>
    ELSE (IF mixinKeyEncTab[j] < Len(orig)
          THEN <<orig[mixinKeyEncTab[j] + 1]>> ELSE << >>)
         \o MixinFrom(orig, j + 1)

\* A mutant of GetMixinKey: the result is not cut to 32 characters.
GetMixinKeyNoTruncate(orig) == MixinFrom(orig, 1)

\* GetMixinKey(orig): the characters the table picks, at most the first 32.
GetMixinKey(orig) ==
    LET result == MixinFrom(orig, 1)
    IN  IF Len(result) > 32 THEN SubSeq(result, 1, 32) ELSE result

\* md5.Sum and hex.EncodeToString: the digest of a string, taken as a value
\* that the hashed string determines and that determines the hashed string.
Md5Hex(s) == [t |-> "md5", s |-> s, n |-> 0]

WtsKey == <<"w", "t", "s">>
WRidKey == <<"w", "_", "r", "i", "d">>

\* A mutant of CopyParams: the copy holds the sanitized values.
CopyParamsSanitized(params) ==
    [k \in DOMAIN params |-> StrVal(filterSpecialChars(Sprint(params[k])))]

\* result := make(map); for k, v := range params { result[k] = v }
CopyParams(params) == [k \in DOMAIN params |-> params[k]]

\* m[key] = value on a map.
MapSet(m, key, value) ==
    [k \in DOMAIN m \cup {key} |-> IF k = key THEN value ELSE m[k]]

\* The query string EncWbi builds over the sorted keys, from position i on.
RECURSIVE QueryFrom(_, _, _)
QueryFrom(result, keys, i) ==
    IF i > Len(keys) THEN << >>
    ELSE (IF i > 1 THEN <<"&">> ELSE << >>)
         \o urlEncode(keys[i]) \o <<"=">>
         \o urlEncode(filterSpecialChars(Sprint(result[keys[i]])))
         \o QueryFrom(result, keys, i + 1)

\* EncWbi(params, imgKey, subKey) at time now, where range over the result map
\* yields its keys in the order `order`: the caller's mapping after the call,
\* the sorted keys, the query string, the string hashed and the returned map.
EncWbi(params, imgKey, subKey, now, order) ==
    LET mixinKey == GetMixinKey(imgKey \o subKey)
        result   == MapSet(CopyParams(params), WtsKey, IntVal(now))
        keys     == SortStrings(order)
        query    == QueryFrom(result, keys, 1)
        wRid     == Md5Hex(query \o mixinKey)
    IN  [called       |-> TRUE,
         callerParams |-> params,
         keys         |-> keys,
         query        |-> query,
         mixinKey     |-> mixinKey,
         wRid         |-> wRid,
         result       |-> MapSet(result, WRidKey, wRid)]

\* The orders in which a range over a map with the key set S can yield them.
Orders(S) ==
    {o \in [1..Cardinality(S) -> S] :
        \A i, j \in 1..Cardinality(S) : i # j => o[i] # o[j]}

\* Sampled parameter names; wts and w_rid are among them.
KeySamples ==
    {<<"a">>, <<"b">>, <<"a", "b">>, <<"Z">>, WtsKey, WRidKey}

\* Sampled parameter values.
ValueSamples ==
    {StrVal(<<"x">>), StrVal(<<"a", "*", "b", "!", "c">>),
     StrVal(<<"(", "'", ")", " ", "&">>), IntVal(80)}

\* Sampled parameter mappings: at most MaxParams entries.
ParamSamples ==
    UNION {[S -> ValueSamples] :
              S \in {T \in SUBSET KeySamples : Cardinality(T) <= MaxParams}}

\* Sampled key pairs and timestamps (time.Now().Unix()).
KeyPairSamples == {<<<<"k">>, <<"m">>>>, <<<<"a", "b", "c">>, <<"d">>>>}
NowSamples == {5, 1702204169}

\* The characters filterSpecialChars is tried on.
FilterAlphabet == {"a", "b", "c", "!", "'", "(", ")", "*"}

\* The strings over FilterAlphabet of length n.
FilterStringsOfLen(n) == [1..n -> FilterAlphabet]

FilterSamples ==
    UNION {FilterStringsOfLen(n) : n \in 0..MaxStrLen}
    \cup {<<"a", "*", "b", "!", "c">>}

\* One call utils.EncWbi(params, imgKey, subKey).
\* No call of the signer has been made yet: a behaviour makes one.
SignIdle == ~sgIn.called /\ ~fsIn.called /\ ~mkIn.called

CallEncWbi ==
    /\ SignIdle
    /\ \E params \in ParamSamples, kp \in KeyPairSamples, now \in NowSamples :
          \E order \in Orders(DOMAIN params \cup {WtsKey}) :
             /\ sgIn' = [called |-> TRUE, params |-> params, imgKey |-> kp[1],
                         subKey |-> kp[2], now |-> now, order |-> order]
             /\ sgOut' = EncWbi(params, kp[1], kp[2], now, order)
    /\ UNCHANGED <<fsIn, fsOut, mkIn, mkOut, bqOut>>
    /\ UNCHANGED <<cacheVars, pipeVars, handlerVars, frontVars, reqVars>>

\* One call filterSpecialChars(s).
CallFilterSpecialChars ==
    /\ SignIdle
    /\ \E s \in FilterSamples :
          /\ fsIn' = [called |-> TRUE, s |-> s]
          /\ fsOut' = filterSpecialChars(s)
    /\ UNCHANGED <<sgIn, sgOut, mkIn, mkOut, bqOut>>
    /\ UNCHANGED <<cacheVars, pipeVars, handlerVars, frontVars, reqVars>>

\* buildQueryString: the loop over the sorted keys, from position i on.
RECURSIVE BuildFrom(_, _, _)
BuildFrom(params, keys, i) ==
    IF i > Len(keys) THEN << >>
    ELSE (IF i > 1 THEN <<"&">> ELSE << >>)
         \o urlEncode(keys[i]) \o <<"=">>
         \o urlEncode(Sprint(params[keys[i]]))
         \o BuildFrom(params, keys, i + 1)

\* buildQueryString(params), where range over params yields its keys in the
\* order `order`; the keys are sorted twice.
buildQueryString(params, order) ==
    BuildFrom(params, SortStrings(SortStrings(order)), 1)

\* The orders the range over the signed mapping is tried with: the order
\* EncWbi's range had, w_rid last where it was not in it, and the reverse.
RangeOrderSamples ==
    LET base == IF \E i \in 1..Len(sgIn.order) : sgIn.order[i] = WRidKey
                THEN sgIn.order ELSE Append(sgIn.order, WRidKey)
    IN  {base, [i \in 1..Len(base) |-> base[Len(base) + 1 - i]]}

\* GetPlayUrl: query := buildQueryString(signedParams)
CallBuildQueryString ==
    /\ sgOut.called
    /\ ~bqOut.called
    /\ \E order \in RangeOrderSamples :
          bqOut' = [called |-> TRUE,
                    query |-> buildQueryString(sgOut.result, order)]
    /\ UNCHANGED <<sgIn, sgOut, fsIn, fsOut, mkIn, mkOut>>
    /\ UNCHANGED <<cacheVars, pipeVars, handlerVars, frontVars, reqVars>>

\* The longest source string GetMixinKey is tried on.
MaxOrigLen == 66

\* 64 distinct characters, so that a character of a source string of up to
\* 64 characters tells the position it was taken from.
MixinChars ==
    <<"0", "1", "2", "3", "4", "5", "6", "7", "8", "9",
      "a", "b", "c", "d", "e", "f", "g", "h", "i", "j", "k", "l", "m",
      "n", "o", "p", "q", "r", "s", "t", "u", "v", "w", "x", "y", "z",
      "A", "B", "C", "D", "E", "F", "G", "H", "I", "J", "K", "L", "M",
      "N", "O", "P", "Q", "R", "S", "T", "U", "V", "W", "X", "Y", "Z",
      "-", "_">>

\* The source string of n characters over MixinChars, and one of hex digits
\* as the two keys of the nav response are.
MixinSource(n) == [i \in 1..n |-> MixinChars[((i - 1) % Len(MixinChars)) + 1]]
HexSource(n) == [i \in 1..n |-> HexDigits[((7 * i) % 16) + 1]]

MixinSamples ==
    {MixinSource(n) : n \in 0..MaxOrigLen} \cup {HexSource(n) : n \in 0..MaxOrigLen}

\* One call GetMixinKey(orig).
CallGetMixinKey ==
    /\ SignIdle
    /\ \E orig \in MixinSamples :
          /\ mkIn' = [called |-> TRUE, orig |-> orig]
          /\ mkOut' = GetMixinKey(orig)
    /\ UNCHANGED <<sgIn, sgOut, fsIn, fsOut, bqOut>>
    /\ UNCHANGED <<cacheVars, pipeVars, handlerVars, frontVars, reqVars>>

SignNext ==
    \/ CallEncWbi
    \/ CallFilterSpecialChars
    \/ CallGetMixinKey
    \/ CallBuildQueryString

SignInit ==
    /\ sgIn = NoCall
    /\ sgOut = NoCall
    /\ fsIn = NoCall
    /\ fsOut = << >>
    /\ mkIn = NoCall
    /\ mkOut = << >>
    /\ bqOut = NoCall

FrontInit ==
    /\ frPc = "request"
    /\ frReq = NoCall
    /\ frBvid = << >>
    /\ frStatus = 0
    /\ frCalls = << >>
    /\ frPagelist = NoCall
    /\ frCid = NoCall

\* DownloadAndMerge has been called with two URLs, which it does not look at
\* before it requests them.
ReqInit ==
    /\ dvPc = "merge"
    /\ playData = NoCall
    /\ dvErr = NoErr
    /\ dlUrls = [t \in Tasks |-> UrlOf(t)]
    /\ fetchLog = [t \in Tasks |-> NoCall]

\* downloadVideo has the cid and asks for the play-address data.
ReqStart ==
    /\ dvPc = "playurl"
    /\ playData = NoCall
    /\ dvErr = NoErr
    /\ dlUrls = [t \in Tasks |-> << >>]
    /\ fetchLog = [t \in Tasks |-> NoCall]

Init == CacheInit /\ PipeInit /\ HandlerInit /\ SignInit /\ FrontInit /\ ReqInit

Next == \E c \in Callers : CallerStep(c)

Spec == Init /\ [][Next]_vars

PipeSpec == Init /\ [][PipeNext]_vars

\* ---------------------------------------------------------- downloadVideo

\* A track of the play-address data: its base_url and its backup_url list.
Track(base, backup) == [base |-> base, backup |-> backup]

\* A mutant of GetVideoUrl: the backup URL is preferred.
GetVideoUrlBackupFirst(video) ==
    IF Len(video.backup) > 0 THEN video.backup[1] ELSE video.base

\* GetVideoUrl(video)
GetVideoUrl(video) ==
    IF video.base # << >> THEN video.base
    ELSE IF Len(video.backup) > 0 THEN video.backup[1]
    ELSE << >>

\* GetAudioUrl(audio)
GetAudioUrl(audio) ==
    IF audio.base # << >> THEN audio.base
    ELSE IF Len(audio.backup) > 0 THEN audio.backup[1]
    ELSE << >>

ErrGetPlayUrl == "get play url failed"
ErrNoStream == "no video or audio stream found"
ErrEmptyUrl == "video or audio url is empty"
ErrDownloadMerge == "download and merge failed"

\* The tracks the play-address data is sampled with, named by their letter.
TrackSamples(c) ==
    {Track(<<c, "1">>, << >>),
     Track(<<c, "1">>, <<<<c, "2">>>>),
     Track(<< >>, <<<<c, "2">>>>),
     Track(<< >>, << >>),
     Track(<< >>, <<<< >>, <<c, "3">>>>)}

\* Track lists: none, one track, or a second track after it.
TrackLists(c) ==
    {<< >>}
    \cup {<<t>> : t \in TrackSamples(c)}
    \cup {<<Track(<<c, "1">>, << >>), Track(<<c, "9">>, << >>)>>}

PlaySamples == [video : TrackLists("V"), audio : TrackLists("A")]

\* The goroutine that serves the request, as a caller of the key cache.
RequestCaller == 1

DefaultFnver == 0
DefaultFnval == 4048
DefaultFourk == 1

\* GetPlayUrl: the parameters of the play-address request.
PlayUrlParams(bvid, cid, quality) ==
    (<<"b", "v", "i", "d">> :> StrVal(bvid))
    @@ (<<"c", "i", "d">> :> IntVal(cid))
    @@ (<<"q", "n">> :> IntVal(quality))
    @@ (<<"f", "n", "v", "e", "r">> :> IntVal(DefaultFnver))
    @@ (<<"f", "n", "v", "a", "l">> :> IntVal(DefaultFnval))
    @@ (<<"f", "o", "u", "r", "k">> :> IntVal(DefaultFourk))

\* The arguments downloadVideo calls GetPlayUrl with, and the time of the
\* call.
BvidSamples == {<<"B", "V", "1", "x">>}
CidSamples == {11}
QnSamples == {80}
PlayNowSamples == {1702204169}

\* The orders the range over the seven parameters is tried with.
PlayOrderSamples ==
    LET base == <<<<"b", "v", "i", "d">>, <<"c", "i", "d">>, <<"q", "n">>,
                  <<"f", "n", "v", "e", "r">>, <<"f", "n", "v", "a", "l">>,
                  <<"f", "o", "u", "r", "k">>, WtsKey>>
    IN  {base, [i \in 1..Len(base) |-> base[Len(base) + 1 - i]]}

\* GetPlayUrl: wbiKeys, err := s.GetWbiKeys(), one step of the call.
GetWbiKeysStep(c) ==
    \/ CallGetWbiKeys(c)
    \/ RLock(c)
    \/ CheckCache(c)
    \/ FastReturn(c)
    \/ Lock(c)
    \/ DoubleCheck(c)
    \/ SendNavRequest(c)
    \/ ReceiveNav(c)
    \/ UnlockReturn(c)

\* GetPlayUrl is in its GetWbiKeys call, or about to make it.
PlayUrlGetKeys ==
    /\ dvPc = "playurl"
    /\ Len(rets[RequestCaller]) = 0
    /\ GetWbiKeysStep(RequestCaller)

\* GetPlayUrl from the return of GetWbiKeys to the request sent: the error
\* return, or EncWbi, buildQueryString and the request.
SignPlayUrl ==
    /\ dvPc = "playurl"
    /\ Len(rets[RequestCaller]) = 1
    /\ pc[RequestCaller] = "idle"
    /\ IF rets[RequestCaller][1].err # NoErr
       THEN /\ dvPc' = "failed"
            /\ dvErr' = ErrGetPlayUrl
            /\ UNCHANGED <<sgIn, sgOut, bqOut>>
       ELSE \E bvid \in BvidSamples, cid \in CidSamples, quality \in QnSamples,
               now \in PlayNowSamples, order \in PlayOrderSamples :
               LET keys == rets[RequestCaller][1].keys
                   params == PlayUrlParams(bvid, cid, quality)
                   signed == EncWbi(params, keys[1], keys[2], now, order)
               IN  /\ sgIn' = [called |-> TRUE, params |-> params,
                               imgKey |-> keys[1], subKey |-> keys[2],
                               now |-> now, order |-> order]
                   /\ sgOut' = signed
                   /\ bqOut' = [called |-> TRUE,
                                query |-> buildQueryString(signed.result,
                                             Append(order, WRidKey))]
                   /\ dvPc' = "request"
                   /\ dvErr' = dvErr
    /\ UNCHANGED <<playData, dlUrls, fetchLog, fsIn, fsOut, mkIn, mkOut>>
    /\ UNCHANGED <<cacheVars, pipeVars, handlerVars, frontVars>>

\* GetPlayUrl from the response of the play-address request on, and its
\* return to downloadVideo.
GotPlayUrl ==
    /\ dvPc = "request"
    /\ \/ \E data \in PlaySamples :
             /\ playData' = [called |-> TRUE, video |-> data.video,
                             audio |-> data.audio]
             /\ dvPc' = "select"
             /\ dvErr' = dvErr
       \/ /\ dvPc' = "failed"
          /\ dvErr' = ErrGetPlayUrl
          /\ playData' = playData
    /\ UNCHANGED <<dlUrls, fetchLog>>
    /\ UNCHANGED <<cacheVars, pipeVars, handlerVars, signVars, frontVars>>

\* downloadVideo from the track lists to the call of DownloadAndMerge.
SelectStreams ==
    /\ dvPc = "select"
    /\ IF Len(playData.video) = 0 \/ Len(playData.audio) = 0
       THEN /\ dvPc' = "failed"
            /\ dvErr' = ErrNoStream
            /\ dlUrls' = dlUrls
       ELSE LET videoUrl == GetVideoUrl(playData.video[1])
                audioUrl == GetAudioUrl(playData.audio[1])
            IN  IF videoUrl = << >> \/ audioUrl = << >>
                THEN /\ dvPc' = "failed"
                     /\ dvErr' = ErrEmptyUrl
                     /\ dlUrls' = dlUrls
                ELSE /\ dvPc' = "merge"
                     /\ dvErr' = dvErr
                     /\ dlUrls' = [t \in Tasks |->
                                     IF t = "video" THEN videoUrl ELSE audioUrl]
    /\ UNCHANGED <<playData, fetchLog>>
    /\ UNCHANGED <<cacheVars, pipeVars, handlerVars, signVars, frontVars>>

\* DownloadAndMerge has returned to downloadVideo.
DownloadVideoReturn ==
    /\ dvPc = "merge"
    /\ dmPc = "returned"
    /\ IF dmRet.stream
       THEN dvPc' = "returned" /\ dvErr' = dvErr
       ELSE dvPc' = "failed" /\ dvErr' = ErrDownloadMerge
    /\ UNCHANGED <<playData, dlUrls, fetchLog>>
    /\ UNCHANGED <<cacheVars, pipeVars, handlerVars, signVars, frontVars>>

\* DownloadAndMerge runs once downloadVideo has called it.
RequestNext ==
    \/ PlayUrlGetKeys
    \/ SignPlayUrl
    \/ GotPlayUrl
    \/ SelectStreams
    \/ (dvPc = "merge" /\ DownloadStep)
    \/ DownloadVideoReturn

\* -------------------------------------------------- Handler.Download: the id

LowerLetters ==
    <<"a", "b", "c", "d", "e", "f", "g", "h", "i", "j", "k", "l", "m",
      "n", "o", "p", "q", "r", "s", "t", "u", "v", "w", "x", "y", "z">>

UpperLetters ==
    <<"A", "B", "C", "D", "E", "F", "G", "H", "I", "J", "K", "L", "M",
      "N", "O", "P", "Q", "R", "S", "T", "U", "V", "W", "X", "Y", "Z">>

Digits == {"0", "1", "2", "3", "4", "5", "6", "7", "8", "9"}

\* strings.ToUpper(s)
ToUpper(s) ==
    [i \in 1..Len(s) |->
        IF \E j \in 1..Len(LowerLetters) : LowerLetters[j] = s[i]
        THEN UpperLetters[CHOOSE j \in 1..Len(LowerLetters) : LowerLetters[j] = s[i]]
        ELSE s[i]]

\* strings.HasPrefix(s, prefix)
HasPrefix(s, prefix) ==
    Len(s) >= Len(prefix) /\ SubSeq(s, 1, Len(prefix)) = prefix

\* strings.TrimPrefix(s, prefix)
TrimPrefix(s, prefix) ==
    IF HasPrefix(s, prefix) THEN SubSeq(s, Len(prefix) + 1, Len(s)) ELSE s

\* isNumeric(s)
isNumeric(s) ==
    /\ \A i \in 1..Len(s) : s[i] \in Digits
    /\ Len(s) > 0

BV == <<"B", "V">>

\* The identifier Download passes on for an id that starts with BV in any
\* letter case.
BvidOf(id) ==
    IF ~HasPrefix(id, BV) THEN BV \o TrimPrefix(id, BV) ELSE id

StatusBadRequest == 400
StatusInternalServerError == 500

\* The largest page number a request is sampled with.
MaxPage == 3

\* The ids a request is sampled with.
IdSamples ==
    {<< >>,
     <<"B", "V", "1", "x">>, <<"b", "v", "1", "x">>,
     <<"B", "v", "1", "x">>, <<"b", "V", "1", "x">>,
     BV, <<"B">>, <<"1", "7">>, <<"0">>, <<"1", "a">>,
     <<"a", "v", "1", "7">>, <<"x", "B", "V">>}

\* What fmt.Sscanf(p, "%d", &page) gives for the query value p: an error, or
\* the number read.
ScanSamples(max) ==
    {[ok |-> FALSE, n |-> 0]} \cup {[ok |-> TRUE, n |-> k] : k \in 0..max}

QualitySamples == {[ok |-> FALSE, n |-> 0], [ok |-> TRUE, n |-> 0], [ok |-> TRUE, n |-> 80]}

\* An entry of the page list (CidInfo) and the lists a response is sampled
\* with.
CidInfo(cid, page, vid) == [cid |-> cid, page |-> page, vid |-> vid]

DataSamples ==
    {<< >>,
     <<CidInfo(11, 1, << >>)>>,
     <<CidInfo(11, 1, <<"B", "V", "9">>)>>,
     <<CidInfo(11, 1, << >>), CidInfo(22, 2, << >>), CidInfo(33, 3, << >>)>>}

\* What the page-list request can produce, as its two callers distinguish it.
PagelistOutcomes ==
    [kind : {"bad_url", "transport_error", "read_error", "parse_error"},
     code : {0}, data : {<< >>}]
    \cup [kind : {"response"}, code : {-400}, data : {<< >>}]
    \cup [kind : {"response"}, code : {0}, data : DataSamples]

\* A mutant of GetCid: the entry of the requested page is returned.
GetCidOfPage(bvid, page, o) ==
    IF o.kind # "response" THEN [cid |-> 0, err |-> o.kind]
    ELSE IF o.code # 0 THEN [cid |-> 0, err |-> "api_error"]
    ELSE IF Len(o.data) = 0 THEN [cid |-> 0, err |-> "not_found"]
    ELSE IF \E i \in 1..Len(o.data) : o.data[i].page = page
    THEN [cid |-> o.data[CHOOSE i \in 1..Len(o.data) : o.data[i].page = page].cid,
          err |-> NoErr]
    ELSE [cid |-> o.data[1].cid, err |-> NoErr]

\* GetCid(bvid, page), given what its page-list request produced.
GetCid(bvid, page, o) ==
    IF o.kind # "response" THEN [cid |-> 0, err |-> o.kind]
    ELSE IF o.code # 0 THEN [cid |-> 0, err |-> "api_error"]
    ELSE IF Len(o.data) = 0 THEN [cid |-> 0, err |-> "not_found"]
    ELSE [cid |-> o.data[1].cid, err |-> NoErr]

\* avidToBvid(avid, page), given what its page-list request produced.
avidToBvid(avid, page, o) ==
    IF o.kind # "response" THEN [bvid |-> << >>, err |-> o.kind]
    ELSE IF o.code # 0 THEN [bvid |-> << >>, err |-> "api_error"]
    ELSE IF Len(o.data) = 0 THEN [bvid |-> << >>, err |-> "not_found"]
    ELSE IF o.data[1].vid = << >> THEN [bvid |-> << >>, err |-> "no_bvid"]
    ELSE [bvid |-> o.data[1].vid, err |-> NoErr]

\* Download from its entry to the parsed parameters.
ReceiveRequest ==
    /\ frPc = "request"
    /\ \E id \in IdSamples, p \in ScanSamples(MaxPage), quality \in QualitySamples :
          /\ frReq' = [called |-> TRUE, id |-> id, p |-> p, quality |-> quality,
                       page |-> IF p.ok THEN p.n ELSE 1]
          /\ IF id = << >> \/ ~p.ok \/ p.n < 1 \/ ~quality.ok \/ quality.n < 1
             THEN frPc' = "returned" /\ frStatus' = StatusBadRequest
             ELSE frPc' = "classify" /\ frStatus' = frStatus
    /\ UNCHANGED <<frBvid, frCalls, frPagelist, frCid>>
    /\ UNCHANGED <<cacheVars, pipeVars, handlerVars, signVars, reqVars>>

\* Download: the id is a BV id, an AV id, or neither.
ClassifyId ==
    /\ frPc = "classify"
    /\ IF HasPrefix(ToUpper(frReq.id), BV)
       THEN /\ frBvid' = BvidOf(frReq.id)
            /\ frPc' = "download"
            /\ frStatus' = frStatus
       ELSE IF isNumeric(frReq.id)
       THEN /\ frPc' = "avid"
            /\ UNCHANGED <<frBvid, frStatus>>
       ELSE /\ frPc' = "returned"
            /\ frStatus' = StatusBadRequest
            /\ frBvid' = frBvid
    /\ UNCHANGED <<frReq, frCalls, frPagelist, frCid>>
    /\ UNCHANGED <<cacheVars, pipeVars, handlerVars, signVars, reqVars>>

\* bvid, err = h.avidToBvid(id, page)
CallAvidToBvid ==
    /\ frPc = "avid"
    /\ frCalls' = Append(frCalls, [api |-> "pagelist", key |-> "aid",
                                   id |-> frReq.id, page |-> frReq.page])
    /\ \E o \in PagelistOutcomes :
          LET r == avidToBvid(frReq.id, frReq.page, o)
          IN  IF r.err # NoErr
              THEN /\ frPc' = "returned"
                   /\ frStatus' = StatusInternalServerError
                   /\ frBvid' = frBvid
              ELSE /\ frPc' = "download"
                   /\ frStatus' = frStatus
                   /\ frBvid' = r.bvid
    /\ UNCHANGED <<frReq, frPagelist, frCid>>
    /\ UNCHANGED <<cacheVars, pipeVars, handlerVars, signVars, reqVars>>

\* downloadVideo: cid, err := h.apiService.GetCid(bvid, page)
CallGetCid ==
    /\ frPc = "download"
    /\ frCalls' = Append(frCalls, [api |-> "pagelist", key |-> "bvid",
                                   id |-> frBvid, page |-> frReq.page])
    /\ \E o \in PagelistOutcomes :
          /\ frPagelist' = [called |-> TRUE, kind |-> o.kind, code |-> o.code,
                            data |-> o.data]
          /\ frCid' = [called |-> TRUE,
                       cid |-> GetCid(frBvid, frReq.page, o).cid,
                       err |-> GetCid(frBvid, frReq.page, o).err]
          /\ frPc' = IF GetCid(frBvid, frReq.page, o).err = NoErr
                     THEN "playurl" ELSE "failed"
    /\ UNCHANGED <<frReq, frBvid, frStatus>>
    /\ UNCHANGED <<cacheVars, pipeVars, handlerVars, signVars, reqVars>>

FrontNext ==
    \/ ReceiveRequest
    \/ ClassifyId
    \/ CallAvidToBvid
    \/ CallGetCid

FrontSpec == Init /\ [][FrontNext]_vars

\* The cache of an ApiService that fetched the pair for an earlier request.
CacheWarm ==
    /\ wbiKeys = <<<<"k">>, <<"m">>>>
    /\ writer = NoOne
    /\ readers = {}
    /\ pc = [c \in Callers |-> "idle"]
    /\ frames = [c \in Callers |-> << >>]
    /\ seen = [c \in Callers |-> Nil]
    /\ pending = [c \in Callers |-> NoResult]
    /\ cur = [c \in Callers |-> [fn |-> "none", sent |-> 0, startKeys |-> Nil,
                                 dirty |-> FALSE, resp |-> NoResp]]
    /\ rets = [c \in Callers |-> << >>]
    /\ calls = 0
    /\ navLog = << >>
    /\ batch = {}
    /\ invalidated = FALSE

RequestInit ==
    /\ CacheInit \/ CacheWarm
    /\ PipeInit /\ HandlerInit /\ SignInit /\ FrontInit /\ ReqStart

RequestSpec == RequestInit /\ [][RequestNext]_vars

SignSpec == Init /\ [][SignNext]_vars

HandlerSpec == Init /\ [][HandlerNext]_vars

\* The goroutine that serves the request keeps running, and io.Copy ends, with
\* the whole file written or with the error of a failed write.
HandlerFairSpec == HandlerSpec /\ WF_vars(HandlerStep)

\* ------------------------------------------------- key cache: properties

\* Every call of the first concurrent batch has returned.
BatchComplete ==
    /\ batch # {}
    /\ \A c \in batch : Len(rets[c]) >= 1

\* The (keys, err) a caller's first call returned.
FirstResult(c) == [keys |-> rets[c][1].keys, err |-> rets[c][1].err]

InFlight == {c \in Callers : pc[c] = "await"}

\* C1, as stated: the GetWbiKeys calls that start concurrently on an Empty
\* cache send exactly one request to the key source in total, whatever its
\* outcome.
C1_ExactlyOneRequestWhateverOutcome ==
    BatchComplete => Len(navLog) = 1

\* C1, amended: at most one request is in flight at any time; the calls that
\* start concurrently on an Empty cache send at least one request and at
\* most one each, and a further request is sent only after a failed one, so
\* exactly one is sent when the first request succeeds.
C1_OneRequestPerFailurePlusOne ==
    /\ Cardinality(InFlight) <= 1
    /\ \A c \in batch : \A i \in 1..Len(rets[c]) : rets[c][i].sent <= 1
    /\ BatchComplete =>
          /\ Len(navLog) >= 1
          /\ Len(navLog) <= Cardinality(batch)
          /\ \A i \in 1..(Len(navLog) - 1) : navLog[i] = "fail"

\* Two concurrent calls on an Empty cache have returned; the first request
\* failed and the second caller's own request succeeded.
C1_Witness ==
    /\ BatchComplete
    /\ Cardinality(batch) >= 2
    /\ navLog = <<"fail", "ok">>

\* C2, as stated: all GetWbiKeys calls that overlap on an Empty cache return
\* the same result, the same pair or the same failure.
C2_AllConcurrentCallersSameResult ==
    BatchComplete => \A c, d \in batch : FirstResult(c) = FirstResult(d)

\* C2, amended: as long as no RefreshWbiKeys has cleared the cache, every one
\* of the concurrent calls that returns without error returns the one cached
\* pair, and a call returns a failure exactly when its own request failed;
\* one caller may fail while another succeeds.
C2_SuccessfulCallersSamePair ==
    ~invalidated =>
        \A c \in batch :
            Len(rets[c]) >= 1 =>
                /\ FirstResult(c).err = NoErr =>
                      /\ FirstResult(c).keys # Nil
                      /\ FirstResult(c).keys = wbiKeys
                /\ FirstResult(c).err # NoErr =>
                      /\ FirstResult(c).keys = Nil
                      /\ rets[c][1].sent = 1

\* Two concurrent calls on an Empty cache have returned, one with a failure
\* and one with the pair.
C2_Witness ==
    /\ BatchComplete
    /\ \E c, d \in batch :
          /\ FirstResult(c).err # NoErr
          /\ FirstResult(d).err = NoErr
          /\ FirstResult(d).keys # Nil

\* c is inside RefreshWbiKeys and has executed s.wbiKeys = nil.
RefreshCleared(c) ==
    /\ pc[c] \notin {"idle", "fatal"}
    /\ cur[c].fn = "RefreshWbiKeys"
    /\ Len(frames[c]) = 2

\* C3: RefreshWbiKeys leaves the cache Empty without having sent a request,
\* and goes on to return (it is never blocked once it has cleared the cache),
\* so that the next GetWbiKeys call can fetch.
C3_InvalidateLeavesCacheEmptyAndReturns ==
    \A c \in Callers :
        /\ RefreshCleared(c) =>
              /\ cur[c].sent = 0
              /\ wbiKeys = Nil
              /\ ENABLED CallerStep(c)
        /\ \A i \in 1..Len(rets[c]) :
              rets[c][i].fn = "RefreshWbiKeys" => rets[c][i].sent = 0

\* C4: a GetWbiKeys call that starts on a Populated cache, with no
\* RefreshWbiKeys clearing it meanwhile, sends no request and returns the
\* pair that was cached when it started; the cached pair does not change
\* while such a call is in progress, and all such calls return the same pair.
C4_PopulatedServedFromCache ==
    /\ \A c \in Callers : \A i \in 1..Len(rets[c]) :
          LET r == rets[c][i]
          IN  (r.fn = "GetWbiKeys" /\ r.startKeys # Nil /\ ~r.dirty) =>
                  /\ r.err = NoErr
                  /\ r.keys = r.startKeys
                  /\ r.sent = 0
                  /\ ~invalidated => r.keys = wbiKeys
    /\ \A c \in Callers :
          (pc[c] # "idle" /\ cur[c].fn = "GetWbiKeys"
             /\ cur[c].startKeys # Nil /\ ~cur[c].dirty) =>
                  /\ wbiKeys = cur[c].startKeys
                  /\ cur[c].sent = 0

\* A GetWbiKeys call that started on a Populated cache has returned.
C4_Witness ==
    \E c \in Callers : \E i \in 1..Len(rets[c]) :
        /\ rets[c][i].fn = "GetWbiKeys"
        /\ rets[c][i].startKeys # Nil
        /\ ~rets[c][i].dirty
        /\ rets[c][i].keys = rets[c][i].startKeys

UpstreamUnavailable == {ErrRequestFailed, ErrReadBody, ErrParseJSON, ErrApiCode}

\* C5: a fetch that fails in transport or is answered with a non-zero code
\* makes GetWbiKeys fail with an upstream error, a response from which either
\* key cannot be extracted makes it fail with the invalid-key error; a
\* failing call leaves the cache Empty, and a Populated cache holds two
\* non-empty keys.
C5_FailuresClassifiedAndCacheStaysEmpty ==
    /\ wbiKeys # Nil =>
          /\ Len(wbiKeys) = 2
          /\ wbiKeys[1] # EmptyStr
          /\ wbiKeys[2] # EmptyStr
    /\ \A c \in Callers :
          (pc[c] = "unlockret" /\ cur[c].resp.kind # "none") =>
              LET o == cur[c].resp
                  r == pending[c]
              IN  /\ o.kind \in {"transport_error", "read_error", "bad_json"} =>
                        r.err \in UpstreamUnavailable
                  /\ (o.kind = "json" /\ o.code # 0) => r.err = ErrApiCode
                  /\ (o.kind = "json" /\ o.code = 0
                        /\ (NoKeyIn(o.img_url) \/ NoKeyIn(o.sub_url))) =>
                        r.err = ErrInvalidKey
                  /\ r.err # NoErr => (r.keys = Nil /\ wbiKeys = Nil)

\* A call has received a well-formed answer with code 0 one of whose URLs
\* holds no key, and is about to return the invalid-key error.
C5_Witness ==
    \E c \in Callers :
        /\ pc[c] = "unlockret"
        /\ cur[c].resp.kind = "json"
        /\ cur[c].resp.code = 0
        /\ NoKeyIn(cur[c].resp.sub_url)
        /\ pending[c].err = ErrInvalidKey
        /\ wbiKeys = Nil

\* --------------------------------------------------- pipeline: properties

\* DownloadFile has returned in goroutine t.
FetchCompleted(t) == taskPc[t] \in {"send", "sent", "done"}

\* Goroutine t has put its result on resultChan.
Delivered(t) == taskPc[t] \in {"sent", "done"}

\* DownloadAndMerge is past the collection loop.
Decided ==
    dmPc \in {"check", "lookpath", "ffmpeg", "ffmpeg_wait", "mergefail", "merged",
              "open", "returned"}

\* C6: the ffmpeg process is started only when both fetches have completed
\* and both completed without error; while a fetch is in progress or after a
\* fetch failed it is not started.
C6_MuxOnlyAfterBothFetchesSucceeded ==
    (muxStarted \/ dmPc \in {"lookpath", "ffmpeg", "ffmpeg_wait"}) =>
        \A t \in Tasks : FetchCompleted(t) /\ taskErr[t] = NoDlErr

\* The ffmpeg process is running; both fetches are done and their files exist.
C6_Witness ==
    /\ muxStarted
    /\ dmPc = "ffmpeg_wait"
    /\ \A t \in Tasks : taskPc[t] = "done" /\ t \in files

\* C7: once the fetches are launched, DownloadAndMerge is past its collection
\* loop only when both fetch goroutines have delivered their result and both
\* results were received; while a fetch has not delivered, it has not
\* returned, removed anything or started the mux, also when the other fetch
\* has already failed.
C7_NoDecisionBeforeBothDelivered ==
    /\ (Decided /\ dmRet.stage # "mkdir") =>
          /\ \A t \in Tasks : Delivered(t)
          /\ resultChan = << >>
          /\ Len(sendOrder) = 2
    /\ (\E t \in Tasks : taskPc[t] # "idle" /\ ~Delivered(t)) =>
          /\ dmPc = "collect"
          /\ dmRet = NoRet
          /\ nCleanup = 0
          /\ ~muxStarted

\* The audio fetch failed and delivered first, the video fetch succeeded
\* later, and DownloadAndMerge has returned.
C7_Witness ==
    /\ dmPc = "returned"
    /\ sendOrder = <<"audio", "video">>
    /\ taskErr["audio"] # NoDlErr
    /\ taskErr["video"] = NoDlErr
    /\ "video" \in created

\* C8: when a fetch failed, DownloadAndMerge returns the failure of a stream
\* that did fail, video and audio told apart, with that fetch's error as its
\* cause, and no file of the run nor the temporary directory exists when it
\* returns.
C8_FetchFailureNamesStreamAndCleansUp ==
    (dmPc = "returned" /\ \E t \in Tasks : taskErr[t] # NoDlErr) =>
        /\ ~dmRet.stream
        /\ dmRet.stage \in Tasks
        /\ taskErr[dmRet.stage] # NoDlErr
        /\ dmRet.cause = taskErr[dmRet.stage]
        /\ taskErr["video"] # NoDlErr => dmRet.stage = "video"
        /\ files = {}
        /\ ~dirExists

\* Video failed, audio succeeded and its file was written; the video failure
\* was returned and the audio file is gone.
C8_Witness ==
    /\ dmPc = "returned"
    /\ taskErr["video"] # NoDlErr
    /\ taskErr["audio"] = NoDlErr
    /\ "audio" \in created
    /\ dmRet.stage = "video"
    /\ "audio" \notin files

\* C9: whenever DownloadAndMerge returns an error, the temporary directory
\* and every file in it are gone.
C9_EveryErrorPathCleansUp ==
    (dmPc = "returned" /\ ~dmRet.stream) =>
        /\ files = {}
        /\ ~dirExists

\* Both files were fetched, ffmpeg was not found, and the error was returned.
C9_Witness ==
    /\ dmPc = "returned"
    /\ dmRet.stage = "merge"
    /\ dmRet.cause = DlErr("ffmpeg not found", 0)
    /\ {"video", "audio"} \subseteq created
    /\ ~dirExists

ClosesReturned == \E k \in Closers : Len(closeRets[k]) > 0

\* C10: over any number of Close calls, the handle is closed once, the output
\* file removed once and the directory removed once, all before the first
\* Close returns; at most one call runs the cleanup, and every other call
\* returns nil.
C10_CloseCleansUpExactlyOnce ==
    /\ nFileClose <= 1 /\ nRemove <= 1 /\ nRemoveAll <= 1
    /\ Cardinality({k \in Closers : closePc[k] # "idle" /\ closeRan[k]}) +
       Cardinality({k \in Closers : \E i \in 1..Len(closeRets[k]) : closeRets[k][i].ran})
          <= 1
    /\ ClosesReturned =>
          /\ nFileClose = 1 /\ nRemove = 1 /\ nRemoveAll = 1
          /\ files = {} /\ ~dirExists /\ ~fileOpen
    /\ \A k \in Closers : \A i \in 1..Len(closeRets[k]) :
          ~closeRets[k][i].ran => closeRets[k][i].err = NoDlErr

\* Two callers have both returned from Close; one of them ran the cleanup and
\* got the error of closing the handle, the other got nil.
C10_Witness ==
    \E k1, k2 \in Closers :
        /\ k1 # k2
        /\ Len(closeRets[k1]) > 0 /\ Len(closeRets[k2]) > 0
        /\ closeRets[k1][1].ran /\ closeRets[k1][1].err # NoDlErr
        /\ ~closeRets[k2][1].ran /\ closeRets[k2][1].err = NoDlErr
        /\ nRemove = 1

\* ------------------------------------------------------ handler: properties

\* The handler's deferred Close has run the whole cleanup, or found it done.
HandlerClosed ==
    /\ Len(closeRets[HandlerCloser]) = 1
    /\ closedFlag /\ onceDone

\* Nothing of the request is left in temporary storage.
NothingLeft == files = {} /\ ~dirExists /\ ~fileOpen

\* C11: a handler that obtained a stream from DownloadAndMerge always goes on
\* to return, whether the copy to the client completes or aborts, and when it
\* has returned its Close has been called and has returned, and no temporary
\* directory, file or open handle of the request remains.
C11_HandlerAlwaysClosesStream ==
    /\ [](hPc = "returned" /\ dmRet.stream => HandlerClosed /\ NothingLeft)
    /\ (hPc = "copy") ~> (hPc = "returned" /\ HandlerClosed /\ NothingLeft)

\* The copy was aborted by the client, and the handler has returned after its
\* Close removed the output file and the directory.
C11_Witness ==
    /\ hPc = "returned"
    /\ dmRet.stream
    /\ hCopyErr # NoDlErr
    /\ Len(closeRets[HandlerCloser]) = 1
    /\ closeRets[HandlerCloser][1].ran
    /\ "output" \in created
    /\ NothingLeft

\* ------------------------------------------------- mux step: properties

\* The ffmpeg process was started and exited with a non-zero status.
MuxExitedNonZero == muxStarted /\ ffmpegOutput # NoOutput /\ mergeErr # NoDlErr

\* C12: when the ffmpeg process has exited with a non-zero status (it is only
\* started after both fetches succeeded), DownloadAndMerge returns the merge
\* failure, whose error carries the exit status and the combined output of the
\* process, and at that return the two fetched files, any output file and the
\* directory are gone.
C12_MuxFailureCarriesOutputAndCleansUp ==
    /\ MuxExitedNonZero =>
          /\ taskErr = [t \in Tasks |-> NoDlErr]
          /\ {"video", "audio"} \subseteq created
          /\ dmPc \in {"mergefail", "returned"}
    /\ (MuxExitedNonZero /\ dmPc = "returned") =>
          /\ ~dmRet.stream
          /\ dmRet.stage = "merge"
          /\ dmRet.cause.msg = "ffmpeg failed"
          /\ dmRet.cause.code # 0
          /\ dmRet.cause.output = ffmpegOutput
          /\ files = {} /\ ~dirExists /\ ~fileOpen

\* ffmpeg printed a diagnosis, left a partial output file and exited non-zero;
\* the merge failure was returned with that output and everything is removed.
C12_Witness ==
    /\ dmPc = "returned"
    /\ MuxExitedNonZero
    /\ ffmpegOutput # ""
    /\ dmRet.cause.output = ffmpegOutput
    /\ created = {"video", "audio", "output"}
    /\ files = {}
    /\ ~dirExists

\* DownloadAndMerge returned the tool-not-found failure.
ToolNotFoundReturned ==
    /\ dmPc = "returned"
    /\ ~dmRet.stream
    /\ dmRet.stage = "merge"
    /\ dmRet.cause = ErrToolNotFound

\* C13 as stated: when ffmpeg is not on the path the pipeline returns the
\* tool-not-found failure and leaves the two fetched files and the temporary
\* directory in place.
C13_ToolNotFoundLeavesArtifacts ==
    ToolNotFoundReturned => ({"video", "audio"} \subseteq files /\ dirExists)

\* C13 as amended: when ffmpeg is not on the path the pipeline returns the
\* tool-not-found failure after one cleanupFiles call that removed the two
\* fetched files and the temporary directory; no process was started.
C13_ToolNotFoundCleansUp ==
    ToolNotFoundReturned =>
        /\ {"video", "audio"} \subseteq created
        /\ nCleanup = 1
        /\ files = {}
        /\ ~dirExists
        /\ ~muxStarted
        /\ ffmpegOutput = NoOutput

\* Both streams were fetched, ffmpeg was looked up once and not found, and the
\* failure was returned with the fetched files and the directory removed.
C13_Witness ==
    /\ ToolNotFoundReturned
    /\ created = {"video", "audio"}
    /\ nLookPath = 1
    /\ nCleanup = 1
    /\ files = {}
    /\ ~dirExists

\* C14: ffmpeg is looked up at most once in a pipeline run; when the lookup
\* failed no process is ever started and the merge step fails with the
\* tool-not-found error, and a returned merge failure is that error exactly
\* when no process was started, so the two merge failures can be told apart.
C14_ToolNotFoundDistinctNoStartNoRetry ==
    /\ nLookPath <= 1
    /\ mergeErr = ErrToolNotFound =>
          /\ nLookPath = 1
          /\ ~muxStarted
          /\ ffmpegOutput = NoOutput
          /\ dmPc \in {"mergefail", "returned"}
    /\ (dmPc = "returned" /\ dmRet.stage = "merge") =>
          /\ (dmRet.cause = ErrToolNotFound) <=> ~muxStarted
          /\ (dmRet.cause # ErrToolNotFound) <=> (dmRet.cause.msg = "ffmpeg failed")

\* The lookup failed and the tool-not-found failure was returned; the process
\* was never started.
C14_Witness ==
    /\ dmPc = "returned"
    /\ dmRet.stage = "merge"
    /\ dmRet.cause = ErrToolNotFound
    /\ nLookPath = 1
    /\ ~muxStarted
    /\ ffmpegOutput = NoOutput

\* ------------------------------------------- pipeline states: properties

\* The state of one pipeline run, read off the positions of DownloadAndMerge,
\* of the handler and of the returned stream.
PipelineState ==
    CASE dmPc = "mkdir" -> "Idle"
      [] dmPc \in {"spawn", "collect", "check"} -> "Fetching"
      [] dmPc \in {"lookpath", "ffmpeg", "ffmpeg_wait", "mergefail", "merged",
                   "open"} -> "Muxing"
      [] dmPc = "returned" /\ ~dmRet.stream ->
            IF dmRet.stage = "mkdir" THEN "SetupFailed"
            ELSE IF dmRet.stage \in {"video", "audio"} THEN "FetchFailed"
            ELSE IF dmRet.stage = "merge" THEN "MuxFailed"
            ELSE "OpenFailed"
      [] dmPc = "returned" /\ dmRet.stream ->
            IF closedFlag THEN "Closed"
            ELSE IF hPc = "download" THEN "Ready"
            ELSE "Streaming"

ClaimedStates ==
    {"Idle", "Fetching", "FetchFailed", "Muxing", "MuxFailed", "Ready",
     "Streaming", "Closed"}

AmendedSteps ==
    {<<"Idle", "Fetching">>, <<"Idle", "SetupFailed">>,
     <<"Fetching", "FetchFailed">>, <<"Fetching", "Muxing">>,
     <<"Muxing", "MuxFailed">>, <<"Muxing", "OpenFailed">>, <<"Muxing", "Ready">>,
     <<"Ready", "Streaming">>, <<"Streaming", "Closed">>}

\* C15 as stated: a pipeline run is always in one of the eight states Idle,
\* Fetching, FetchFailed, Muxing, MuxFailed, Ready, Streaming, Closed, so that
\* a run that ends in a failure ends in FetchFailed or MuxFailed and a
\* successful mux is followed by Ready.
C15_OnlyTheEightStates == PipelineState \in ClaimedStates

\* C15 as amended: every step of a run stays in its state or moves along
\* Idle -> Fetching | SetupFailed, Fetching -> FetchFailed | Muxing,
\* Muxing -> MuxFailed | OpenFailed | Ready, Ready -> Streaming,
\* Streaming -> Closed; the four failure states and Closed are never left;
\* Muxing is entered only with both fetches successful, a mux that succeeded
\* leads to Ready or OpenFailed, and a handler that was given a stream returns
\* only in Closed.
C15_PipelineStateMachine ==
    /\ [][PipelineState' = PipelineState
          \/ <<PipelineState, PipelineState'>> \in AmendedSteps]_vars
    /\ [](PipelineState \in {"Muxing", "MuxFailed", "OpenFailed", "Ready"}
             => taskErr = [t \in Tasks |-> NoDlErr])
    /\ [](PipelineState = "FetchFailed" => \E t \in Tasks : taskErr[t] # NoDlErr)
    /\ [](PipelineState = "MuxFailed" => mergeErr # NoDlErr)
    /\ [](PipelineState \in {"OpenFailed", "Ready", "Streaming", "Closed"}
             => mergeErr = NoDlErr /\ muxStarted)
    /\ [](hPc = "returned" /\ dmRet.stream => PipelineState = "Closed")

\* A run went through Ready and Streaming and is Closed, the handler returned.
C15_Witness ==
    /\ PipelineState = "Closed"
    /\ hPc = "returned"
    /\ hCopyErr = NoDlErr
    /\ closeLog # << >>
    /\ muxStarted

\* ------------------------------------------------ Close order: properties

CleanupOrder == <<"close", "remove", "removeall">>

\* Some Close call that ran the cleanup has returned.
CleanupCallReturned ==
    \E k \in CloseCallers : \E i \in 1..Len(closeRets[k]) : closeRets[k][i].ran

\* C16: the steps of the cleanup run are, in this order, closing the handle,
\* removing the output file and removing the directory; when the call that
\* ran it has returned all three were done and nothing is left, whatever the
\* close of the handle and the removal of the file answered, and that call
\* returned the error of closing the handle and never the error of a removal.
C16_CloseOrderAndErrors ==
    /\ Len(closeLog) <= 3
    /\ \A i \in 1..Len(closeLog) : closeLog[i].step = CleanupOrder[i]
    /\ CleanupCallReturned =>
          /\ Len(closeLog) = 3
          /\ files = {} /\ ~dirExists /\ ~fileOpen
    /\ \A k \in CloseCallers : \A i \in 1..Len(closeRets[k]) :
          closeRets[k][i].ran => closeRets[k][i].err = closeLog[1].err

\* The close of the handle failed and so did the removal of the output file;
\* the directory was removed all the same and the call returned the error of
\* the close.
C16_Witness ==
    /\ Len(closeLog) = 3
    /\ closeLog[1].err = DlErr("close failed", 0)
    /\ closeLog[2].err = DlErr("remove failed", 0)
    /\ \E k \in Closers :
          /\ Len(closeRets[k]) > 0
          /\ closeRets[k][1].ran
          /\ closeRets[k][1].err = DlErr("close failed", 0)
    /\ files = {}
    /\ ~dirExists

\* ------------------------------------------------- WBI signing: properties

\* The mapping m without the entry of key.
WithoutKey(m, key) == [k \in DOMAIN m \ {key} |-> m[k]]

\* What the call made would have returned for the mapping p instead.
EncWbiOf(p) ==
    EncWbi(p, sgIn.imgKey, sgIn.subKey, sgIn.now,
           CHOOSE o \in Orders(DOMAIN p \cup {WtsKey}) : TRUE)

\* C17: w_rid is not among the keys EncWbi canonicalizes and hashes, also when
\* the input mapping has a w_rid entry, so the signature is the one of the
\* mapping without that entry.
C17_SignatureNeverCoversWRid ==
    sgOut.called =>
        /\ \A i \in 1..Len(sgOut.keys) : sgOut.keys[i] # WRidKey
        /\ sgOut.wRid = EncWbiOf(WithoutKey(sgIn.params, WRidKey)).wRid

\* C18 as stated: EncWbi leaves the caller's mapping as it was, and the
\* returned mapping has every entry of the input with its original value plus
\* exactly the two fields wts and w_rid.
C18_ResultIsInputPlusTwoFields ==
    sgOut.called =>
        /\ sgOut.callerParams = sgIn.params
        /\ \A k \in DOMAIN sgIn.params : sgOut.result[k] = sgIn.params[k]
        /\ DOMAIN sgOut.result = DOMAIN sgIn.params \cup {WtsKey, WRidKey}
        /\ Cardinality(DOMAIN sgOut.result) = Cardinality(DOMAIN sgIn.params) + 2

\* C18 as amended: EncWbi leaves the caller's mapping as it was, and the
\* returned mapping has exactly the keys of the input and wts and w_rid; every
\* input entry under another key than wts and w_rid keeps its original,
\* unsanitized value, wts holds the timestamp and w_rid the signature, also
\* when the input had entries under these two keys.
C18_ResultIsInputWithWtsAndWRidSet ==
    sgOut.called =>
        /\ sgOut.callerParams = sgIn.params
        /\ DOMAIN sgOut.result = DOMAIN sgIn.params \cup {WtsKey, WRidKey}
        /\ \A k \in DOMAIN sgIn.params \ {WtsKey, WRidKey} :
              sgOut.result[k] = sgIn.params[k]
        /\ sgOut.result[WtsKey] = IntVal(sgIn.now)
        /\ sgOut.result[WRidKey] = sgOut.wRid
        /\ sgOut.wRid.t = "md5"

\* The input had a value with special characters and an entry under wts: the
\* result keeps the first as it was and holds the timestamp under wts.
C18_Witness ==
    /\ sgOut.called
    /\ DOMAIN sgIn.params = {<<"a">>, WtsKey}
    /\ sgIn.params[<<"a">>] = StrVal(<<"a", "*", "b", "!", "c">>)
    /\ sgOut.result[<<"a">>] = StrVal(<<"a", "*", "b", "!", "c">>)
    /\ sgIn.params[WtsKey] = StrVal(<<"x">>)
    /\ sgOut.result[WtsKey] = IntVal(sgIn.now)

\* The pieces of s between the occurrences of the character sep.
RECURSIVE SplitAt(_, _, _)
SplitAt(s, sep, piece) ==
    IF s = << >> THEN <<piece>>
    ELSE IF Head(s) = sep THEN <<piece>> \o SplitAt(Tail(s), sep, << >>)
    ELSE SplitAt(Tail(s), sep, Append(piece, Head(s)))

\* C19: the string EncWbi hashes is the query string followed by the mixing
\* key; the pieces of the query string between the '&' are, one per key of the
\* input and wts, the encoded key, '=' and the encoded sanitized value, in
\* strictly ascending byte-wise order of the keys; it is the same string, and
\* the same signature, for every order in which the map yields its keys.
C19_CanonicalStringSortedByKey ==
    sgOut.called =>
        LET pieces == SplitAt(sgOut.query, "&", << >>)
            final  == MapSet(sgIn.params, WtsKey, IntVal(sgIn.now))
        IN  /\ {sgOut.keys[i] : i \in 1..Len(sgOut.keys)} = DOMAIN final
            /\ Len(sgOut.keys) = Cardinality(DOMAIN final)
            /\ \A i \in 1..(Len(sgOut.keys) - 1) :
                  StrLess(sgOut.keys[i], sgOut.keys[i + 1])
            /\ Len(pieces) = Len(sgOut.keys)
            /\ \A i \in 1..Len(pieces) :
                  pieces[i] = urlEncode(sgOut.keys[i]) \o <<"=">>
                              \o urlEncode(filterSpecialChars(
                                     Sprint(final[sgOut.keys[i]])))
            /\ sgOut.wRid = Md5Hex(sgOut.query \o sgOut.mixinKey)
            /\ \A o \in Orders(DOMAIN final) :
                  LET other == EncWbi(sgIn.params, sgIn.imgKey, sgIn.subKey,
                                      sgIn.now, o)
                  IN  other.query = sgOut.query /\ other.wRid = sgOut.wRid

\* The map yielded wts, then a, then Z; the string hashed lists Z, a, wts.
C19_Witness ==
    /\ sgOut.called
    /\ sgIn.order = <<WtsKey, <<"a">>, <<"Z">>>>
    /\ sgOut.keys = <<<<"Z">>, <<"a">>, WtsKey>>
    /\ sgIn.params[<<"a">>] = StrVal(<<"a", "*", "b", "!", "c">>)
    /\ sgIn.params[<<"Z">>] = IntVal(80)
    /\ sgIn.now = 5
    /\ sgOut.query = <<"Z", "=", "8", "0", "&", "a", "=", "a", "b", "c", "&",
                       "w", "t", "s", "=", "5">>

\* The five characters the sanitization removes.
FiveChars == {"!", "'", "(", ")", "*"}

\* The positions of s that hold none of the five characters.
KeptPositions(s) == {i \in 1..Len(s) : s[i] \notin FiveChars}

\* The j-th of these positions, in ascending order.
NthKept(s, j) ==
    CHOOSE i \in KeptPositions(s) :
        Cardinality({p \in KeptPositions(s) : p <= i}) = j

\* C20: filterSpecialChars(s) consists of the characters of s that are none
\* of ! ' ( ) *, all of them and in their order in s; a*b!c becomes abc.
C20_FilterRemovesExactlyFiveChars ==
    fsIn.called =>
        /\ Len(fsOut) = Cardinality(KeptPositions(fsIn.s))
        /\ \A j \in 1..Len(fsOut) : fsOut[j] = fsIn.s[NthKept(fsIn.s, j)]
        /\ fsIn.s = <<"a", "*", "b", "!", "c">> => fsOut = <<"a", "b", "c">>

\* a*b!c was sanitized to abc.
C20_Witness ==
    /\ fsIn.called
    /\ fsIn.s = <<"a", "*", "b", "!", "c">>
    /\ fsOut = <<"a", "b", "c">>


\* ---------------------------------------------------------------- C21

\* The table positions whose entry is an index inside the source string.
EligibleEntries(src) ==
    {j \in 1..Len(mixinKeyEncTab) : mixinKeyEncTab[j] < Len(src)}

\* The n-th of them in table order.
NthEligible(src, n) ==
    CHOOSE j \in EligibleEntries(src) :
        Cardinality({k \in EligibleEntries(src) : k < j}) = n - 1

\* C21: GetMixinKey returns the characters of the source at the index
\* positions the table lists, in table order, skipping every index that is
\* not inside the source, without padding, cut to at most 32 characters; the
\* table is a permutation of 0..63, so a 64-character source gives exactly 32
\* characters; the result is this function of the source alone.
C21_MixinKeyPicksTableOrderTruncated ==
    mkIn.called =>
        LET src == mkIn.orig
            n == Cardinality(EligibleEntries(src))
        IN  /\ Len(mixinKeyEncTab) = 64
            /\ {mixinKeyEncTab[j] : j \in 1..64} = 0..63
            /\ Len(mkOut) = (IF n > 32 THEN 32 ELSE n)
            /\ \A i \in 1..Len(mkOut) :
                  mkOut[i] = src[mixinKeyEncTab[NthEligible(src, i)] + 1]
            /\ (Len(src) = 64 => Len(mkOut) = 32)
            /\ (Len(src) < 64 => n = Len(src))

\* A 64-character source of distinct characters has been mixed: the result
\* starts with the characters at indices 46, 47 and 18.
C21_Witness ==
    /\ mkIn.called
    /\ mkIn.orig = MixinSource(64)
    /\ Len(mkOut) = 32
    /\ SubSeq(mkOut, 1, 3) = <<MixinChars[47], MixinChars[48], MixinChars[19]>>


\* ---------------------------------------------------------------- C22

\* The track of a stream in the play-address data: the first of its list.
FirstTrack(t) == IF t = "video" THEN playData.video[1] ELSE playData.audio[1]

\* The streams the play-address data has no usable URL for.
StreamAbsent ==
    \/ Len(playData.video) = 0
    \/ Len(playData.audio) = 0
    \/ \E t \in Tasks :
          /\ FirstTrack(t).base = << >>
          /\ \/ Len(FirstTrack(t).backup) = 0
             \/ FirstTrack(t).backup[1] = << >>

\* DownloadAndMerge has not been entered: no directory, no file, no fetch.
PipelineUntouched ==
    /\ dmPc = "mkdir"
    /\ ~dirExists
    /\ files = {}
    /\ created = {}
    /\ \A t \in Tasks : taskPc[t] = "idle" /\ ~fetchLog[t].called

\* C22: each of the two streams is fetched from the primary URL of its track
\* when that is non-empty and otherwise from the first backup URL; when a
\* track list is empty or a track has no URL, the request fails with a
\* stream-absent error before a temporary directory is created or a fetch is
\* started.
C22_PrimaryUrlElseFirstBackup ==
    /\ \A t \in Tasks :
          fetchLog[t].called =>
              /\ fetchLog[t].url # << >>
              /\ fetchLog[t].url =
                    (IF FirstTrack(t).base # << >> THEN FirstTrack(t).base
                     ELSE FirstTrack(t).backup[1])
    /\ (playData.called /\ StreamAbsent) =>
          /\ dvPc \in {"select", "failed"}
          /\ PipelineUntouched
    /\ (playData.called /\ StreamAbsent /\ dvPc = "failed") =>
          dvErr \in {ErrNoStream, ErrEmptyUrl}
    /\ dvErr \in {ErrNoStream, ErrEmptyUrl} => PipelineUntouched

\* Video V1 without backups and audio "" with the backup A2: both fetches
\* have gone out, to V1 and to A2.
C22_Witness ==
    /\ playData.called
    /\ playData.video = <<Track(<<"V", "1">>, << >>)>>
    /\ playData.audio = <<Track(<< >>, <<<<"A", "2">>>>)>>
    /\ fetchLog["video"].called /\ fetchLog["video"].url = <<"V", "1">>
    /\ fetchLog["audio"].called /\ fetchLog["audio"].url = <<"A", "2">>


\* ---------------------------------------------------------------- C23

\* The fetches that got a response with a status.
Answered == {t \in Tasks : fetchLog[t].called /\ fetchLog[t].resp.kind = "status"}

\* DownloadFile has returned in the goroutine of t.
FetchReturned(t) == taskPc[t] \in {"send", "sent", "done", "panic"}

StatusFailure(code) == DlErr("download failed, status", code)

\* C23 as stated: a non-2xx status is a failure carrying the status code and
\* leaves the destination file uncreated, and a 2xx status is not a status
\* failure, the fetch succeeding when the body is copied completely.
C23_Non2xxFailsAnd2xxSucceeds ==
    \A t \in Answered :
        LET code == fetchLog[t].resp.code
        IN  IF code < 200 \/ code > 299
            THEN FetchReturned(t) /\ taskErr[t] = StatusFailure(code)
                 /\ t \notin created
            ELSE taskErr[t] # StatusFailure(code)

\* C23, amended: every status other than 200 is a failure carrying the status
\* code and leaves the destination file uncreated; after a 200 the fetch
\* fails only when the file cannot be created or the body cannot be copied,
\* and succeeds, with the file created, otherwise.
C23_Not200FailsAnd200Succeeds ==
    \A t \in Answered :
        LET code == fetchLog[t].resp.code
        IN  IF code # 200
            THEN FetchReturned(t) /\ taskErr[t] = StatusFailure(code)
                 /\ t \notin created
            ELSE /\ taskErr[t] \in {NoDlErr, DlErr("create file failed", 0),
                                    DlErr("write file failed", 0)}
                 /\ (FetchReturned(t) /\ taskErr[t] = NoDlErr) => t \in created
                 /\ (FetchReturned(t) /\ t \notin created)
                       => taskErr[t] = DlErr("create file failed", 0)

\* The video fetch was answered 206 and returned the status failure without
\* creating its file, while the audio fetch was answered 200 and succeeded.
C23_Witness ==
    /\ fetchLog["video"].called
    /\ fetchLog["video"].resp = [kind |-> "status", code |-> 206]
    /\ taskErr["video"] = StatusFailure(206)
    /\ "video" \notin created
    /\ fetchLog["audio"].called
    /\ fetchLog["audio"].resp = [kind |-> "status", code |-> 200]
    /\ FetchReturned("audio")
    /\ taskErr["audio"] = NoDlErr
    /\ "audio" \in created


\* ---------------------------------------------------------------- C25

\* The temporary directory holds the merged file and nothing else.
OnlyOutputLeft == dirExists /\ files = {"output"}

\* C25: after a successful mux the two fetched files are deleted before the
\* stream is handed over: the step that returns the stream starts and ends
\* with the temporary directory holding only the merged file, and the file
\* and its directory stay, the file open, until Close is called.
C25_OnlyOutputRemainsUntilClose ==
    /\ [][(~dmRet.stream /\ dmRet'.stream) => (OnlyOutputLeft /\ OnlyOutputLeft')]_vars
    /\ []((dmRet.stream /\ closeCalls = 0) => (OnlyOutputLeft /\ fileOpen))

\* The stream has been returned after both fetched files were created, and
\* nobody has called Close.
C25_Witness ==
    /\ dmRet.stream
    /\ closeCalls = 0
    /\ {"video", "audio"} \subseteq created
    /\ files = {"output"}
    /\ dirExists


\* ---------------------------------------------------------------- C24

\* The entries of the page list GetCid received that are the requested part.
EntriesOfPage ==
    {i \in 1..Len(frPagelist.data) : frPagelist.data[i].page = frReq.page}

\* C24: when the page-list response has several entries, GetCid(bvid, page)
\* returns the cid of the entry whose page number is the requested page.
C24_GetCidReturnsRequestedPart ==
    (frCid.called /\ frCid.err = NoErr /\ EntriesOfPage # {}) =>
        \E i \in EntriesOfPage : frCid.cid = frPagelist.data[i].cid

\* ---------------------------------------------------------------- C29

\* The id of the request starts with B and V in some letter case.
StartsWithBvAnyCase ==
    /\ Len(frReq.id) >= 2
    /\ frReq.id[1] \in {"B", "b"}
    /\ frReq.id[2] \in {"V", "v"}

\* Download has classified the id of a request whose parameters parsed.
IdClassified == frReq.called /\ frPc \notin {"request", "classify"} /\ frReq.id # << >>
                /\ frReq.p.ok /\ frReq.p.n >= 1
                /\ frReq.quality.ok /\ frReq.quality.n >= 1

\* C29: an id whose first two characters are B and V in any letter case is
\* passed downstream as BV followed by the characters after its first two;
\* an id of decimal digits only takes the numeric path; every other id is
\* answered 400 before any upstream call.
C29_IdNormalisedOrRejected ==
    IdClassified =>
        IF StartsWithBvAnyCase
        THEN frBvid = <<"B", "V">> \o SubSeq(frReq.id, 3, Len(frReq.id))
        ELSE IF \A i \in 1..Len(frReq.id) : frReq.id[i] \in Digits
        THEN frPc = "avid" \/ (frCalls # << >> /\ frCalls[1].key = "aid")
        ELSE frStatus = 400 /\ frCalls = << >> /\ frPc = "returned"


\* ---------------------------------------------------------------- C26

\* The goroutine c is inside a GetWbiKeys or RefreshWbiKeys call.
InCall(c) == pc[c] \notin {"idle", "fatal"}

\* Somebody else holds the cache lock, so that c may have to wait for it.
LockHeldByOther(c) == (writer # NoOne /\ writer # c) \/ (readers \ {c}) # {}

\* C26: no call deadlocks on the cache lock: a goroutine inside a call can
\* take its next step unless another goroutine holds the lock, and the
\* goroutine that holds the write lock can always take its next step, so
\* that every RefreshWbiKeys call and every GetWbiKeys call goes on to return.
C26_NoCallBlocksOnItsOwnLock ==
    \A c \in Callers :
        /\ InCall(c) => (ENABLED CallerStep(c) \/ LockHeldByOther(c))
        /\ writer = c => ENABLED CallerStep(c)

\* ---------------------------------------------------------------- C27

\* C27: whatever the interleaving with RefreshWbiKeys, a GetWbiKeys call that
\* returns without error returns a present pair of two non-empty keys.
C27_SuccessReturnsPresentPair ==
    \A c \in Callers : \A i \in 1..Len(rets[c]) :
        (rets[c][i].fn = "GetWbiKeys" /\ rets[c][i].err = NoErr) =>
            /\ rets[c][i].keys # Nil
            /\ Len(rets[c][i].keys) = 2
            /\ rets[c][i].keys[1] # EmptyStr
            /\ rets[c][i].keys[2] # EmptyStr


\* ---------------------------------------------------------------- C28

\* The pieces joined again with the character sep between them.
RECURSIVE JoinWith(_, _)
JoinWith(pieces, sep) ==
    IF pieces = << >> THEN << >>
    ELSE IF Len(pieces) = 1 THEN pieces[1]
    ELSE pieces[1] \o <<sep>> \o JoinWith(Tail(pieces), sep)

\* The pairs of pieces that are not the pair of w_rid.
RECURSIVE DropWRid(_)
DropWRid(pieces) ==
    IF pieces = << >> THEN << >>
    ELSE IF Len(Head(pieces)) >= 6 /\ SubSeq(Head(pieces), 1, 6) = WRidKey \o <<"=">>
    THEN DropWRid(Tail(pieces))
    ELSE <<Head(pieces)>> \o DropWRid(Tail(pieces))

\* The query string sent, without its w_rid pair.
SentWithoutWRid == JoinWith(DropWRid(SplitAt(bqOut.query, "&", << >>)), "&")

\* C28: the query string GetPlayUrl sends, buildQueryString over the signed
\* mapping, is with its w_rid pair removed the string over which EncWbi
\* computed the signature, also for values that contain ! ' ( ) or *.
C28_SentTextIsSignedText ==
    bqOut.called => SentWithoutWRid = sgOut.query

====
